---- MODULE Spec2Model ----
(***************************************************************************)
(* Roadmap-API: the hive and cubecraft providers.                          *)
(*                                                                         *)
(*   SpecTracker  the change tracker of one service instance               *)
(*                (recordChanges / recordStatusChanges / Updates)          *)
(*   SpecCache    the response cache of one client under concurrent        *)
(*                fetches (hive Client.get / FetchPage, cubecraft Fetch)   *)
(*   SpecFetch    one hive Service.GetAll -> Client.FetchAllPages call:    *)
(*                the first page, the worker pool, the caller's context    *)
(*   SpecConc     the change tracker under concurrent record and Updates   *)
(*                calls of two goroutines                                  *)
(*   SpecAll      one cubecraft service under successive Service.All and   *)
(*                Service.Page calls while the provider moves cards        *)
(*   SpecItems    the filter and the sort of Service.All on drawn cards    *)
(*                                                                         *)
(* Time is an integer clock.  One clock unit stands for 12 hours in the    *)
(* tracker, so the 24 hour retention window is 2 units; the cache TTL is   *)
(* a number of clock units chosen at construction.                         *)
(***************************************************************************)
EXTENDS Integers, Sequences, FiniteSets, TLC

\* ------------------------------------------------------------------ bounds
MaxClock == 3
MaxItems == 2
MaxLog == 2
MaxVer == 2
MaxPages == 3
MaxWorkers == 2
MaxCards == 2
MaxSortLen == 3
\* Go's int is modelled as a two's complement integer of IntBits bits
IntBits == 6

\* ------------------------------------------------------- program constants
\* keepAfter := now.Add(-24 * time.Hour), in units of 12 hours
Retention == 2

\* ------------------------------------------------------------ sample sets
Procs == {1, 2}
TrackerProcs == {1}
Providers == {"hive", "cubecraft"}
IDs == {"a", "b"}
Statuses == {"In Progress", "Released"}
\* the URLs the cache specification fetches: buildURL of page 1 of one column
CacheURLs == {1}
\* WithCacheTTL(ttl): any duration, zero and negative included
TTLs == {-1, 0, 2}
\* the queries a caller hands to GetAll / FetchAllPages
Columns == {"released", "bogus"}
Queries == [Column : Columns, Page : 0..2, BypassCache : BOOLEAN]
\* the total page count the provider declares: any integer of the JSON body
UpTotals == -1..MaxPages

\* RoadmapItem (hive) / item (cubecraft), reduced to the fields the tracker reads
ItemT == [ID : IDs, Status : Statuses]

RECURSIVE SeqsUpTo(_, _)
SeqsUpTo(S, n) ==
    IF n = 0 THEN {<<>>}
    ELSE LET shorter == SeqsUpTo(S, n - 1)
         IN  shorter \cup {Append(s, x) : s \in {t \in shorter : Len(t) = n - 1}, x \in S}

ItemSeqs == SeqsUpTo(ItemT, MaxItems)

Range(s) == {s[i] : i \in 1..Len(s)}

UniqueIDs(items) ==
    \A i, j \in 1..Len(items) : items[i].ID = items[j].ID => i = j

VARIABLES
    provider,    \* which provider's service this instance is
    now,         \* the wall clock, time.Now()
    prevStatus,  \* service.prevStatus : map[string]string
    updates,     \* service.updates : []changeEntry / []statusChange
    mu,          \* service.mu : 0 when free, else the goroutine holding it
    tr,          \* per goroutine: position and locals inside recordChanges / Updates
    cacheTTL,    \* Client.cacheTTL
    cache,       \* hive Client.cache : sync.Map from URL to cacheEntry
    ccCache,     \* cubecraft Client.cache : *cacheEntry
    upstream,    \* the version of the data the provider serves at this moment
    cg,          \* per goroutine: position and locals inside get / FetchPage / Fetch
    stored,      \* history: per key, the entry stored last, while it is unexpired
    base,        \* FetchAllPages: the base Query
    maxConcurrency, \* Client.maxConcurrency
    upTotal,     \* the totalPages the provider declares in every response
    ctxDone,     \* the caller's context is cancelled
    fp,          \* FetchAllPages: position and locals (total, p, results, firstErr)
    wk,          \* FetchAllPages: the workers
    ret,         \* what FetchAllPages returned
    gaRet,       \* what GetAll returned
    fh,          \* history of the call: requests per page, errors, cancellation
    feed,        \* cubecraft: the cards the provider serves at this moment
    svc,         \* cubecraft Service.All / Service.Page: the call and what it returned
    seen,        \* history: per card, its upstream status at the last successful fetch
    ccMu,        \* cubecraft Client.mu (sync.RWMutex): the writer (0: none), the readers
    resMu        \* FetchAllPages: var mu sync.Mutex; 0 when free, else the worker holding it

trackerVars == <<prevStatus, updates, mu, tr>>
cacheVars == <<cacheTTL, cache, ccCache, upstream, cg, stored>>
fetchVars == <<base, maxConcurrency, upTotal, ctxDone, fp, wk, ret, gaRet, fh>>
svcVars == <<feed, svc, seen>>
lockVars == <<ccMu, resMu>>
vars == <<provider, now, trackerVars, cacheVars, fetchVars, svcVars, lockVars>>
nonTracker == <<cacheVars, fetchVars, svcVars, lockVars>>
nonCache == <<trackerVars, fetchVars, svcVars, lockVars>>

\* a goroutine outside every call
Idle == [pc |-> "idle"]

\* ----------------------------------------------------------- the caches
NoEntry == [ok |-> FALSE]
Entry(body, exp) == [ok |-> TRUE, body |-> body, expiresAt |-> exp]

\* what the provider sends: the current data, or a body that is not JSON, or (cubecraft)
\* the JSON error page of a non-success status
Body(kind) == [ver |-> IF kind = "data" THEN upstream ELSE 0, kind |-> kind]
NoBody == [ver |-> 0, kind |-> "none"]

\* NewClient: an empty cache; cacheTTL is 0 unless an option sets it
InitCacheVars(ttls, urls) ==
    /\ cacheTTL \in ttls
    /\ cache = [u \in urls |-> NoEntry]
    /\ ccCache = NoEntry
    /\ upstream = 1
    /\ cg = [g \in Procs |-> Idle]
    /\ stored = [hive |-> [u \in urls |-> NoEntry], cube |-> NoEntry]

\* hive get: if !bypassCache && c.cacheTTL > 0
hiveReadsCache(bypass) == ~bypass /\ cacheTTL > 0

\* a lookup that still serves an entry at its expiry instant
hiveFresh_AtExpiry(entry) == now <= entry.expiresAt

\* hive get: time.Now().Before(entry.expiresAt)
hiveFresh(entry) == now < entry.expiresAt

\* a store that is also done with a TTL of zero
hiveStoresCache_ZeroTTL(bypass) == cacheTTL >= 0 /\ ~bypass

\* a store that is also done for a fetch that bypasses the cache
hiveStoresCache_IgnoresBypass(bypass) == cacheTTL > 0

\* hive get: if c.cacheTTL > 0 && !bypassCache, before c.cache.Store
hiveStoresCache(bypass) == cacheTTL > 0 /\ ~bypass

\* hive get: cacheEntry{body: body, expiresAt: time.Now().Add(c.cacheTTL)}
hiveNewEntry(body) == Entry(body, now + cacheTTL)

\* hive FetchPage: json.Unmarshal(raw, &hr)
hiveDecodeErr(body) == IF body.kind = "data" THEN "none" ELSE "decode"

\* cubecraft Fetch: if c.cacheTTL > 0, around the RLock'd read
cubeReadsCache == cacheTTL > 0

\* cubecraft Fetch: c.cache != nil && time.Now().Before(c.cache.expiresAt)
cubeFresh(entry) == entry.ok /\ now < entry.expiresAt

\* cubecraft Fetch: if c.cacheTTL > 0, around the Lock'd store
cubeStoresCache == cacheTTL > 0

\* cubecraft Fetch: &cacheEntry{data: cards, expiresAt: time.Now().Add(c.cacheTTL)}
cubeNewEntry(cards) == Entry(cards, now + cacheTTL)

CanCall(g) == cg[g].pc \in {"idle", "ret"}

\* what a fetch that starts now should be served: the body of the entry e that was
\* stored last under its key, if a successful fetch stored it and it is unexpired
Expected(e) ==
    IF e.ok /\ e.body.kind # "garbage" /\ now < e.expiresAt THEN {e.body} ELSE {}

\* the history keeps an entry until its expiry
Unexpired(e, t) == IF e.ok /\ t < e.expiresAt THEN e ELSE NoEntry

\* a fetch returns: what it returns, and what it saw on its way
\* (left: for a cache hit, how long before its expiry the entry was served)
Ret(bypass, src, err, body, left, stale, expect) ==
    [pc |-> "ret", bypass |-> bypass, src |-> src, err |-> err,
     body |-> body, left |-> left, stale |-> stale, expect |-> expect]

Flight(pc, key, bypass, stale, expect) ==
    [pc |-> pc, key |-> key, bypass |-> bypass, stale |-> stale, expect |-> expect]

\* hive FetchPage(q) -> get(u, q.BypassCache): the cache lookup.  A fresh entry is
\* returned; an expired one is left for the Delete that follows; with no usable entry
\* the request goes out.
HiveGetLoad(g, u, bypass) ==
    /\ provider = "hive"
    /\ CanCall(g)
    /\ LET e == cache[u]
           expect == IF hiveReadsCache(bypass) THEN Expected(stored.hive[u]) ELSE {}
       IN  cg' = [cg EXCEPT ![g] =
                    IF hiveReadsCache(bypass) /\ e.ok
                    THEN IF hiveFresh(e)
                         THEN Ret(bypass, "cache", hiveDecodeErr(e.body), e.body,
                                  e.expiresAt - now, FALSE, expect)
                         ELSE Flight("delete", u, bypass, TRUE, expect)
                    ELSE Flight("inflight", u, bypass, FALSE, expect)]
    /\ UNCHANGED <<provider, now, cacheTTL, cache, ccCache, upstream, stored, nonCache>>

\* hive get: c.cache.Delete(fullURL), whatever the key holds by now; then the request
HiveGetDelete(g) ==
    /\ provider = "hive"
    /\ cg[g].pc = "delete"
    /\ cache' = [cache EXCEPT ![cg[g].key] = NoEntry]
    /\ cg' = [cg EXCEPT ![g].pc = "inflight"]
    /\ UNCHANGED <<provider, now, cacheTTL, ccCache, upstream, stored, nonCache>>

HiveOutcomes == {"ok", "garbage", "neterr", "status"}

\* hive get: the response arrives.  Do fails, or the status is >= 400, or the body is
\* read, stored when caching is on, and handed to FetchPage, which decodes it.
HiveGetResp(g, outcome) ==
    /\ provider = "hive"
    /\ cg[g].pc = "inflight"
    /\ LET c == cg[g]
           body == Body(IF outcome = "ok" THEN "data" ELSE "garbage")
           e == hiveNewEntry(body)
       IN  IF outcome \in {"neterr", "status"}
           THEN /\ cg' = [cg EXCEPT ![g] =
                            Ret(c.bypass, "upstream",
                                IF outcome = "neterr" THEN "net" ELSE "status",
                                NoBody, 0, c.stale, c.expect)]
                /\ UNCHANGED <<cache, stored>>
           ELSE /\ cg' = [cg EXCEPT ![g] =
                            Ret(c.bypass, "upstream", hiveDecodeErr(body), body,
                                0, c.stale, c.expect)]
                /\ IF hiveStoresCache(c.bypass)
                   THEN /\ cache' = [cache EXCEPT ![c.key] = e]
                        /\ stored' = [stored EXCEPT !.hive[c.key] = Unexpired(e, now)]
                   ELSE UNCHANGED <<cache, stored>>
    /\ UNCHANGED <<provider, now, cacheTTL, ccCache, upstream, nonCache>>

\* cubecraft Fetch: the RLock'd look at c.cache; a fresh entry is returned, else the
\* request goes out
CubeFetchCheck(g) ==
    /\ provider = "cubecraft"
    /\ CanCall(g)
    /\ LET e == ccCache
           expect == IF cubeReadsCache THEN Expected(stored.cube) ELSE {}
       IN  cg' = [cg EXCEPT ![g] =
                    IF cubeReadsCache /\ cubeFresh(e)
                    THEN Ret(FALSE, "cache", "none", e.body, e.expiresAt - now,
                             FALSE, expect)
                    ELSE Flight("inflight", 0, FALSE,
                                cubeReadsCache /\ e.ok, expect)]
    /\ UNCHANGED <<provider, now, cacheTTL, cache, ccCache, upstream, stored, nonCache>>

CubeOutcomes == {"ok", "garbage", "neterr", "status"}

\* cubecraft Fetch: the response arrives.  Do fails, or the body does not decode, or
\* the cards are parsed, stored when caching is on, and returned.  The status code is
\* not looked at: the JSON error page of a non-success status parses to no cards.
CubeFetchResp(g, outcome) ==
    /\ provider = "cubecraft"
    /\ cg[g].pc = "inflight"
    /\ LET c == cg[g]
           cards == Body(IF outcome = "ok" THEN "data" ELSE "errpage")
           e == cubeNewEntry(cards)
       IN  IF outcome \in {"neterr", "garbage"}
           THEN /\ cg' = [cg EXCEPT ![g] =
                            Ret(FALSE, "upstream",
                                IF outcome = "neterr" THEN "net" ELSE "decode",
                                NoBody, 0, c.stale, c.expect)]
                /\ UNCHANGED <<ccCache, stored>>
           ELSE /\ cg' = [cg EXCEPT ![g] =
                            Ret(FALSE, "upstream", "none", cards, 0, c.stale,
                                c.expect)]
                /\ IF cubeStoresCache
                   THEN /\ ccCache' = e
                        /\ stored' = [stored EXCEPT !.cube = Unexpired(e, now)]
                   ELSE UNCHANGED <<ccCache, stored>>
    /\ UNCHANGED <<provider, now, cacheTTL, cache, upstream, nonCache>>

\* the provider's data changes
UpstreamChange ==
    /\ upstream < MaxVer
    /\ upstream' = upstream + 1
    /\ UNCHANGED <<provider, now, cacheTTL, cache, ccCache, cg, stored, nonCache>>

\* --------------------------------------------------------------- tracker

\* hive: filtered := s.updates[:0]; keep u when u.At.After(keepAfter)
hivePrune(ups, keepAfter) == SelectSeq(ups, LAMBDA u : u.At > keepAfter)

\* cubecraft: the same loop over []statusChange
cubePrune(ups, keepAfter) == SelectSeq(ups, LAMBDA u : u.At > keepAfter)

prune(ups, keepAfter) ==
    IF provider = "hive" THEN hivePrune(ups, keepAfter) ELSE cubePrune(ups, keepAfter)

\* a loop body that logs a first-seen identifier as a change from ""
recordChangesItem_FirstSeenLogged(st, it, at) ==
    IF it.ID \notin DOMAIN st.prevStatus
    THEN [prevStatus |-> (it.ID :> it.Status) @@ st.prevStatus,
          updates |-> Append(st.updates,
                             [At |-> at, From |-> "", To |-> it.Status, Item |-> it])]
    ELSE IF st.prevStatus[it.ID] # it.Status
         THEN [prevStatus |-> [st.prevStatus EXCEPT ![it.ID] = it.Status],
               updates |-> Append(st.updates,
                                  [At |-> at, From |-> st.prevStatus[it.ID],
                                   To |-> it.Status, Item |-> it])]
         ELSE st

\* a loop body that logs a change and leaves the index at the old status
recordChangesItem_ChangeNotIndexed(st, it, at) ==
    IF it.ID \notin DOMAIN st.prevStatus
    THEN [st EXCEPT !.prevStatus = (it.ID :> it.Status) @@ st.prevStatus]
    ELSE IF st.prevStatus[it.ID] # it.Status
         THEN [st EXCEPT !.updates =
                  Append(st.updates, [At |-> at, From |-> st.prevStatus[it.ID],
                                      To |-> it.Status, Item |-> it])]
         ELSE st

\* a loop body that logs every indexed item it sees, changed or not
recordChangesItem_LogsUnchanged(st, it, at) ==
    IF it.ID \notin DOMAIN st.prevStatus
    THEN [st EXCEPT !.prevStatus = (it.ID :> it.Status) @@ st.prevStatus]
    ELSE [prevStatus |-> [st.prevStatus EXCEPT ![it.ID] = it.Status],
          updates |-> Append(st.updates,
                             [At |-> at, From |-> st.prevStatus[it.ID],
                              To |-> it.Status, Item |-> it])]

\* One iteration of the loop of hive recordChanges over st = [prevStatus, updates].
recordChangesItem(st, it, at) ==
    IF it.ID \notin DOMAIN st.prevStatus
    THEN [st EXCEPT !.prevStatus = (it.ID :> it.Status) @@ st.prevStatus]
    ELSE IF st.prevStatus[it.ID] # it.Status
         THEN [prevStatus |-> [st.prevStatus EXCEPT ![it.ID] = it.Status],
               updates |-> Append(st.updates,
                                  [At |-> at, From |-> st.prevStatus[it.ID],
                                   To |-> it.Status, Item |-> it])]
         ELSE st

\* a loop body that writes From and To the wrong way round
recordStatusChangesItem_FromToSwapped(st, it, at) ==
    IF it.ID \notin DOMAIN st.prevStatus
    THEN [st EXCEPT !.prevStatus = (it.ID :> it.Status) @@ st.prevStatus]
    ELSE IF st.prevStatus[it.ID] # it.Status
         THEN [prevStatus |-> [st.prevStatus EXCEPT ![it.ID] = it.Status],
               updates |-> Append(st.updates,
                                  [At |-> at, From |-> it.Status,
                                   To |-> st.prevStatus[it.ID], Item |-> it])]
         ELSE st

\* a loop body that logs a change and leaves the index at the old status
recordStatusChangesItem_ChangeNotIndexed(st, it, at) ==
    IF it.ID \notin DOMAIN st.prevStatus
    THEN [st EXCEPT !.prevStatus = (it.ID :> it.Status) @@ st.prevStatus]
    ELSE IF st.prevStatus[it.ID] # it.Status
         THEN [st EXCEPT !.updates =
                  Append(st.updates, [At |-> at, From |-> st.prevStatus[it.ID],
                                      To |-> it.Status, Item |-> it])]
         ELSE st

\* One iteration of the loop of cubecraft recordStatusChanges.
recordStatusChangesItem(st, it, at) ==
    IF it.ID \notin DOMAIN st.prevStatus
    THEN [st EXCEPT !.prevStatus = (it.ID :> it.Status) @@ st.prevStatus]
    ELSE IF st.prevStatus[it.ID] # it.Status
         THEN [prevStatus |-> [st.prevStatus EXCEPT ![it.ID] = it.Status],
               updates |-> Append(st.updates,
                                  [At |-> at, From |-> st.prevStatus[it.ID],
                                   To |-> it.Status, Item |-> it])]
         ELSE st

recordItem(st, it, at) ==
    IF provider = "hive" THEN recordChangesItem(st, it, at)
    ELSE recordStatusChangesItem(st, it, at)

InRecord(g) == tr[g].pc \in {"rec_lock", "rec_loop"}

\* Which branch of the loop body an item takes in index idx.
BranchOf(idx, it) ==
    IF it.ID \notin DOMAIN idx THEN "first"
    ELSE IF idx[it.ID] # it.Status THEN "changed" ELSE "same"

\* The locals of a record call that starts now.  rep = 2 marks a call that repeats,
\* with the same items, the call that returned immediately before it.
RecordLocals(items, rep) ==
    [pc |-> "rec_lock", items |-> items, i |-> 1, at |-> now, rep |-> rep, kind |-> "none"]

\* a record call by another goroutine ends "immediate succession"
Interrupted(h) ==
    IF tr[h].pc \in {"rec_lock", "rec_loop", "rec_ret"} THEN [tr[h] EXCEPT !.rep = 0] ELSE tr[h]

\* recordChanges(items): now := time.Now(); keepAfter := now.Add(-24h), before the lock.
RecordCall(g, items) ==
    /\ tr[g].pc = "idle"
    /\ Len(updates) + Len(items) <= MaxLog
    /\ tr' = [h \in Procs |-> IF h = g THEN RecordLocals(items, 1) ELSE Interrupted(h)]
    /\ UNCHANGED <<provider, now, prevStatus, updates, mu, nonTracker>>

\* a record call that enters its critical section without waiting for the mutex
RecordLock_NoLock(g) ==
    /\ tr[g].pc = "rec_lock"
    /\ mu' = g
    /\ updates' = prune(updates, tr[g].at - Retention)
    /\ tr' = [tr EXCEPT ![g].pc = "rec_loop"]
    /\ UNCHANGED <<provider, now, prevStatus, nonTracker>>

\* s.mu.Lock(); the prune loop; s.updates = filtered
RecordLock(g) ==
    /\ tr[g].pc = "rec_lock"
    /\ mu = 0
    /\ mu' = g
    /\ updates' = prune(updates, tr[g].at - Retention)
    /\ tr' = [tr EXCEPT ![g].pc = "rec_loop"]
    /\ UNCHANGED <<provider, now, prevStatus, nonTracker>>

\* one iteration of: for _, it := range items
RecordItem(g) ==
    /\ tr[g].pc = "rec_loop"
    /\ tr[g].i <= Len(tr[g].items)
    /\ LET it == tr[g].items[tr[g].i]
           st == recordItem([prevStatus |-> prevStatus, updates |-> updates], it, tr[g].at)
       IN  /\ prevStatus' = st.prevStatus
           /\ updates' = st.updates
           /\ tr' = [tr EXCEPT ![g].i = @ + 1, ![g].kind = BranchOf(prevStatus, it)]
    /\ UNCHANGED <<provider, now, mu, nonTracker>>

\* the loop is over; the deferred s.mu.Unlock() runs and the call returns
RecordReturn(g) ==
    /\ tr[g].pc = "rec_loop"
    /\ tr[g].i > Len(tr[g].items)
    /\ mu' = 0
    /\ \/ tr' = [tr EXCEPT ![g] = Idle]
       \/ /\ tr[g].rep = 1
          /\ tr' = [tr EXCEPT ![g] = [pc |-> "rec_ret", items |-> tr[g].items, rep |-> 1]]
    /\ UNCHANGED <<provider, now, prevStatus, updates, nonTracker>>

\* the caller hands the same items to record again (a second fetch served the same data)
RecordAgain(g) ==
    /\ tr[g].pc = "rec_ret"
    /\ Len(updates) + Len(tr[g].items) <= MaxLog
    /\ tr' = [tr EXCEPT ![g] = RecordLocals(tr[g].items, IF tr[g].rep = 1 THEN 2 ELSE 0)]
    /\ UNCHANGED <<provider, now, prevStatus, updates, mu, nonTracker>>

\* Updates(): keepAfter := time.Now().Add(-24h), before the lock
UpdatesCall(g) ==
    /\ tr[g].pc = "idle"
    /\ tr' = [tr EXCEPT ![g] = [pc |-> "upd_lock", keepAfter |-> now - Retention]]
    /\ UNCHANGED <<provider, now, prevStatus, updates, mu, nonTracker>>

hiveUpdatesOut(ups, keepAfter) == SelectSeq(ups, LAMBDA u : u.At > keepAfter)

\* a read that still returns an entry detected exactly 24 hours before it
cubeUpdatesOut_KeepsBoundary(ups, keepAfter) == SelectSeq(ups, LAMBDA u : u.At >= keepAfter)

cubeUpdatesOut(ups, keepAfter) == SelectSeq(ups, LAMBDA u : u.At > keepAfter)

\* a read that does not wait for the mutex
UpdatesLock_NoLock(g) ==
    /\ tr[g].pc = "upd_lock"
    /\ mu' = g
    /\ tr' = [tr EXCEPT ![g] = [pc |-> "upd_ret", keepAfter |-> tr[g].keepAfter,
                                out |-> IF provider = "hive"
                                        THEN hiveUpdatesOut(updates, tr[g].keepAfter)
                                        ELSE cubeUpdatesOut(updates, tr[g].keepAfter)]]
    /\ UNCHANGED <<provider, now, prevStatus, updates, nonTracker>>

\* s.mu.Lock(); out := the entries with u.At.After(keepAfter); s.updates is not assigned
UpdatesLock(g) ==
    /\ tr[g].pc = "upd_lock"
    /\ mu = 0
    /\ mu' = g
    /\ tr' = [tr EXCEPT ![g] = [pc |-> "upd_ret", keepAfter |-> tr[g].keepAfter,
                                out |-> IF provider = "hive"
                                        THEN hiveUpdatesOut(updates, tr[g].keepAfter)
                                        ELSE cubeUpdatesOut(updates, tr[g].keepAfter)]]
    /\ UNCHANGED <<provider, now, prevStatus, updates, nonTracker>>

\* the deferred s.mu.Unlock(); return out
UpdatesReturn(g) ==
    /\ tr[g].pc = "upd_ret"
    /\ mu' = 0
    /\ tr' = [tr EXCEPT ![g] = Idle]
    /\ UNCHANGED <<provider, now, prevStatus, updates, nonTracker>>

\* ------------------------------------------ hive GetAll / FetchAllPages
\* var columnToStatusID: the recognized columns
columnToStatusID == {"in-progress", "coming-next", "released"}

NoErr == [page |-> 0, kind |-> "none"]
Err(page, kind) == [page |-> page, kind |-> kind]

\* Query.statusID: the column must be a key of columnToStatusID
statusID(q) == IF q.Column \in columnToStatusID THEN "none" ELSE "column"

\* Client.buildURL: page <= 0 becomes 1; an unknown column is an error.  With the
\* column and the other parameters fixed, the page number stands for the URL.
buildURL(q) ==
    [err |-> statusID(q), url |-> IF q.Page <= 0 THEN 1 ELSE q.Page]

\* the provider's page `page`: one submission per page
FeedItems(page) ==
    IF page = 0 THEN <<>>
    ELSE <<[ID |-> IF page % 2 = 1 THEN "a" ELSE "b", Status |-> "In Progress"]>>

\* MapResponse(hr), hr given by its Page (0 is the zero hiveResponse)
MapResponse(hrPage) ==
    [Meta |-> [Page |-> hrPage, TotalPages |-> IF hrPage = 0 THEN 0 ELSE upTotal],
     Items |-> FeedItems(hrPage)]

RECURSIVE recordLoop(_, _, _)
\* for _, it := range items, from the first item to the last
recordLoop(st, items, at) ==
    IF items = <<>> THEN st
    ELSE recordLoop(recordItem(st, Head(items), at), Tail(items), at)

\* recordChanges(items) as one step: the prune, then the loop
recordWhole(st, items, at) ==
    recordLoop([prevStatus |-> st.prevStatus,
                updates |-> prune(st.updates, at - Retention)], items, at)

RECURSIVE Flatten(_)
Flatten(ss) == IF ss = <<>> THEN <<>> ELSE Head(ss) \o Flatten(Tail(ss))

\* a critical section in which the last error wins
workerRecord_LastErrorWins(f, page, err, hrPage) ==
    IF err # NoErr
    THEN [f EXCEPT !.firstErr = err]
    ELSE [f EXCEPT !.results[page] = hrPage]

\* the worker's critical section: mu.Lock(); the first error is kept, a good page goes
\* to its slot results[j.page-1]; mu.Unlock()
workerRecord(f, page, err, hrPage) ==
    IF err # NoErr /\ f.firstErr = NoErr
    THEN [f EXCEPT !.firstErr = err]
    ELSE IF err = NoErr
         THEN [f EXCEPT !.results[page] = hrPage]
         ELSE f

\* workers := c.maxConcurrency; if workers > total { workers = total }
workerCount(total) == IF maxConcurrency > total THEN total ELSE maxConcurrency

Workers == 1..MaxWorkers

\* FetchAllPages returns r; GetAll hands an error on, or maps the pages, records the
\* collected items in the tracker and returns the mapped pages
Finish(r) ==
    /\ ret' = r
    /\ IF r.err # NoErr
       THEN /\ gaRet' = [pages |-> <<>>, err |-> r.err]
            /\ UNCHANGED <<prevStatus, updates>>
       ELSE LET out == [i \in 1..Len(r.pages) |-> MapResponse(r.pages[i])]
                collected == Flatten([i \in 1..Len(out) |-> out[i].Items])
                st == recordWhole([prevStatus |-> prevStatus, updates |-> updates],
                                  collected, now)
            IN  /\ gaRet' = [pages |-> out, err |-> NoErr]
                /\ prevStatus' = st.prevStatus
                /\ updates' = st.updates

\* FetchAllPages returns before the pool exists
FinishEarly(r) ==
    /\ Finish(r)
    /\ fp' = [fp EXCEPT !.pc = "done"]
    /\ UNCHANGED wk

\* the first page is there: total := first.TotalPages; total == 0 returns it alone;
\* make([]hiveResponse, total) panics for a negative total and nothing is returned;
\* else results[0] = first and the workers start
AfterFirst(hrPage) ==
    IF upTotal = 0
    THEN FinishEarly([pages |-> <<hrPage>>, err |-> NoErr])
    ELSE IF upTotal < 0
    THEN /\ fp' = [pc |-> "panic"]
         /\ UNCHANGED <<wk, ret, gaRet, prevStatus, updates>>
    ELSE /\ fp' = [pc |-> "dispatch", total |-> upTotal, p |-> 2, firstErr |-> NoErr,
                   results |-> [i \in 1..upTotal |-> IF i = 1 THEN hrPage ELSE 0]]
         /\ wk' = [w \in Workers |->
                     IF w <= workerCount(upTotal) THEN [st |-> "idle"] ELSE [st |-> "none"]]
         /\ UNCHANGED <<ret, gaRet, prevStatus, updates>>

\* get finds a fresh entry for url
CacheHit(url, bypass) == hiveReadsCache(bypass) /\ cache[url].ok /\ hiveFresh(cache[url])

\* get finds an expired entry for url and deletes it before the request
CacheAfterLookup(url, bypass) ==
    IF hiveReadsCache(bypass) /\ cache[url].ok /\ ~hiveFresh(cache[url])
    THEN [cache EXCEPT ![url] = NoEntry] ELSE cache

\* get: a body has been read; it is stored when caching is on
CacheAfterBody(url, bypass, body) ==
    IF hiveStoresCache(bypass) THEN [cache EXCEPT ![url] = hiveNewEntry(body)] ELSE cache

Requested(page) == [fh EXCEPT !.reqs[page] = @ + 1]
Failed(h) == [h EXCEPT !.nFail = @ + 1]

\* the error FetchPage returns for a response outcome
OutcomeErr(page, outcome) ==
    CASE outcome = "ok" -> NoErr
      [] outcome = "garbage" -> Err(page, "decode")
      [] outcome = "neterr" -> Err(page, "net")
      [] outcome = "status" -> Err(page, "status")
      [] outcome = "canceled" -> Err(page, "canceled")

FetchOutcomes == {"ok", "garbage", "neterr", "status", "canceled"}

\* GetAll(ctx, q) -> FetchAllPages(ctx, base): first, _, err := c.FetchPage(ctx, base).
\* buildURL may fail; a fresh cache entry answers at once; with the context already
\* cancelled Do fails at once; else the request for the first page goes out.
FapCall ==
    /\ fp.pc = "call"
    /\ LET b == buildURL(base)
           e == cache[b.url]
       IN  IF b.err # "none"
           THEN /\ FinishEarly([pages |-> <<>>, err |-> Err(0, "column")])
                /\ UNCHANGED <<cache, fh>>
           ELSE IF CacheHit(b.url, base.BypassCache)
           THEN IF hiveDecodeErr(e.body) # "none"
                THEN /\ FinishEarly([pages |-> <<>>, err |-> Err(b.url, "decode")])
                     /\ fh' = Failed(fh)
                     /\ UNCHANGED cache
                ELSE /\ AfterFirst(b.url)
                     /\ UNCHANGED <<cache, fh>>
           ELSE IF ctxDone
           THEN /\ FinishEarly([pages |-> <<>>, err |-> Err(b.url, "canceled")])
                /\ cache' = CacheAfterLookup(b.url, base.BypassCache)
                /\ fh' = Failed(fh)
           ELSE /\ fp' = [fp EXCEPT !.pc = "first"]
                /\ cache' = CacheAfterLookup(b.url, base.BypassCache)
                /\ fh' = Requested(b.url)
                /\ UNCHANGED <<wk, ret, gaRet, prevStatus, updates>>
    /\ UNCHANGED <<svcVars, lockVars, provider, now, mu, tr, cacheTTL, ccCache, upstream, cg,
                   stored, base, maxConcurrency, upTotal, ctxDone>>

\* the answer to the first request
FapFirstResp(outcome) ==
    /\ fp.pc = "first"
    /\ outcome = "canceled" => ctxDone
    /\ LET url == buildURL(base).url
           body == Body(IF outcome = "ok" THEN "data" ELSE "garbage")
       IN  /\ cache' = IF outcome \in {"ok", "garbage"}
                       THEN CacheAfterBody(url, base.BypassCache, body) ELSE cache
           /\ IF outcome = "ok"
              THEN /\ AfterFirst(url)
                   /\ UNCHANGED fh
              ELSE /\ FinishEarly([pages |-> <<>>, err |-> OutcomeErr(url, outcome)])
                   /\ fh' = Failed(fh)
    /\ UNCHANGED <<svcVars, lockVars, provider, now, mu, tr, cacheTTL, ccCache, upstream, cg,
                   stored, base, maxConcurrency, upTotal, ctxDone>>

\* jobs <- job{page: p} meets a worker's receive; the worker calls FetchPage for the
\* page: a fresh cache entry or a context already cancelled gives the result at once
\* and the worker records it; else the request goes out
Dispatch(w) ==
    /\ fp.pc = "dispatch"
    /\ fp.p <= fp.total
    /\ wk[w].st = "idle"
    /\ LET page == fp.p
           sent == [fp EXCEPT !.p = @ + 1]
           e == cache[page]
       IN  IF CacheHit(page, base.BypassCache)
           THEN /\ fp' = workerRecord(sent, page,
                                      IF hiveDecodeErr(e.body) = "none" THEN NoErr
                                      ELSE Err(page, "decode"), page)
                /\ fh' = IF hiveDecodeErr(e.body) = "none" THEN fh
                         ELSE [Failed(fh) EXCEPT
                                 !.firstRec = IF @ = NoErr THEN Err(page, "decode") ELSE @]
                /\ UNCHANGED <<wk, cache>>
           ELSE IF ctxDone
           THEN /\ fp' = workerRecord(sent, page, Err(page, "canceled"), page)
                /\ fh' = [Failed(fh) EXCEPT
                            !.firstRec = IF @ = NoErr THEN Err(page, "canceled") ELSE @]
                /\ cache' = CacheAfterLookup(page, base.BypassCache)
                /\ UNCHANGED wk
           ELSE /\ fp' = sent
                /\ wk' = [wk EXCEPT ![w] = [st |-> "inflight", page |-> page]]
                /\ cache' = CacheAfterLookup(page, base.BypassCache)
                /\ fh' = [Requested(page) EXCEPT !.late = @ \/ fp.firstErr # NoErr]
    /\ UNCHANGED <<svcVars, lockVars, provider, now, trackerVars, cacheTTL, ccCache, upstream, cg,
                   stored, base, maxConcurrency, upTotal, ctxDone, ret, gaRet>>

\* the answer to a worker's request; the worker records it and loops
WorkerResp(w, outcome) ==
    /\ wk[w].st = "inflight"
    /\ outcome = "canceled" => ctxDone
    /\ LET page == wk[w].page
           body == Body(IF outcome = "ok" THEN "data" ELSE "garbage")
           err == OutcomeErr(page, outcome)
       IN  /\ cache' = IF outcome \in {"ok", "garbage"}
                       THEN CacheAfterBody(page, base.BypassCache, body) ELSE cache
           /\ fp' = workerRecord(fp, page, err, page)
           /\ fh' = IF err = NoErr THEN fh
                    ELSE [Failed(fh) EXCEPT !.firstRec = IF @ = NoErr THEN err ELSE @]
    /\ wk' = [wk EXCEPT ![w] = [st |-> "idle"]]
    /\ UNCHANGED <<svcVars, lockVars, provider, now, trackerVars, cacheTTL, ccCache, upstream, cg,
                   stored, base, maxConcurrency, upTotal, ctxDone, ret, gaRet>>

\* close(jobs) after the last page number
CloseJobs ==
    /\ fp.pc = "dispatch"
    /\ fp.p > fp.total
    /\ fp' = [fp EXCEPT !.pc = "wait"]
    /\ UNCHANGED <<svcVars, lockVars, provider, now, trackerVars, cacheVars, base, maxConcurrency,
                   upTotal, ctxDone, wk, ret, gaRet, fh>>

\* range jobs ends for an idle worker once the channel is closed: wg.Done()
WorkerExit(w) ==
    /\ fp.pc = "wait"
    /\ wk[w].st = "idle"
    /\ wk' = [wk EXCEPT ![w] = [st |-> "exit"]]
    /\ UNCHANGED <<svcVars, lockVars, provider, now, trackerVars, cacheVars, base, maxConcurrency,
                   upTotal, ctxDone, fp, ret, gaRet, fh>>

\* wg.Wait() is over: firstErr, or the results
FapReturn ==
    /\ fp.pc = "wait"
    /\ \A w \in Workers : wk[w].st \in {"exit", "none"}
    /\ Finish(IF fp.firstErr # NoErr THEN [pages |-> <<>>, err |-> fp.firstErr]
              ELSE [pages |-> fp.results, err |-> NoErr])
    /\ fp' = [fp EXCEPT !.pc = "done"]
    /\ UNCHANGED <<svcVars, lockVars, provider, now, mu, tr, cacheVars, base, maxConcurrency,
                   upTotal, ctxDone, wk, fh>>

\* the caller cancels the context while the call runs
Cancel ==
    /\ ~ctxDone
    /\ fp.pc \in {"call", "first", "dispatch", "wait"}
    /\ ctxDone' = TRUE
    /\ fh' = [fh EXCEPT !.cancelLeft =
                IF fp.pc = "dispatch" THEN fp.total - fp.p + 1
                ELSE IF fp.pc = "first" /\ upTotal > 1 THEN upTotal - 1 ELSE 0]
    /\ UNCHANGED <<svcVars, lockVars, provider, now, trackerVars, cacheVars, base, maxConcurrency,
                   upTotal, fp, wk, ret, gaRet>>

NoRet == [pages |-> <<>>, err |-> NoErr]

InitFetchVars(queries, totals, concurrencies) ==
    /\ base \in queries
    /\ upTotal \in totals
    /\ maxConcurrency \in concurrencies
    /\ ctxDone = FALSE
    /\ fp = [pc |-> "call"]
    /\ wk = [w \in Workers |-> [st |-> "none"]]
    /\ ret = NoRet
    /\ gaRet = NoRet
    /\ fh = [reqs |-> [u \in DOMAIN cache |-> 0], firstRec |-> NoErr, nFail |-> 0,
             late |-> FALSE, cancelLeft |-> 0,
             cached0 |-> {u \in DOMAIN cache : cache[u].ok}]

\* no GetAll call: the fetch variables stay as they are
NoFetch == InitFetchVars({[Column |-> "released", Page |-> 1, BypassCache |-> FALSE]}, {1}, {2})

\* ------------------------------------------------ cubecraft Service.All / Page
CardNames == <<"a", "b", "c", "d">>
CardIDs == {CardNames[i] : i \in 1..MaxCards}
CardStatuses == {"In Progress", "Testing", "Released"}

\* var columnToStatus: the statuses of a column; nil for a column that is no key
columnToStatus(column) ==
    CASE column = "in-progress" -> <<"In Progress">>
      [] column = "coming-next" -> <<"Testing">>
      [] column = "released" -> <<"Released">>
      [] OTHER -> <<>>

\* a contains for which an empty arr contains nothing
contains_EmptyMatchesNothing(arr, v) == \E i \in 1..Len(arr) : arr[i] = v

\* contains(arr, v): an empty arr contains everything
contains(arr, v) ==
    IF Len(arr) = 0 THEN TRUE ELSE \E i \in 1..Len(arr) : arr[i] = v

mapStatusLabel(notionStatus) ==
    IF notionStatus = "Testing" THEN "Coming Next..." ELSE notionStatus

\* the item All builds from a card: times are cut from milliseconds to seconds,
\* ReleasedAt stays the zero time (0) when the card names no release day
toItem(c) ==
    [ID |-> c.ID, Title |-> c.Title, Status |-> mapStatusLabel(c.Status),
     CreatedAt |-> c.CreatedAt \div 1000, UpdatedAt |-> c.UpdatedAt \div 1000,
     ReleasedAt |-> c.ReleasedAt]

RECURSIVE filterCards(_, _)
\* for _, c := range cards: skip c unless contains(targetStatuses, status)
filterCards(cards, targetStatuses) ==
    IF cards = <<>> THEN <<>>
    ELSE (IF contains(targetStatuses, Head(cards).Status)
          THEN <<toItem(Head(cards))>> ELSE <<>>)
         \o filterCards(Tail(cards), targetStatuses)

SortNames == {"releasedat:asc", "releasedat:desc", "lastupdated:asc", "lastupdated:desc",
              "createdat:asc", "createdat:desc", "title:asc", "title:desc"}

\* a Go string as the sequence of its code points: the string literals of the source
Codes(s) ==
    CASE s = "" -> <<>>
      [] s = "releasedat:asc" -> <<114, 101, 108, 101, 97, 115, 101, 100, 97, 116, 58, 97, 115, 99>>
      [] s = "releasedat:desc" -> <<114, 101, 108, 101, 97, 115, 101, 100, 97, 116, 58, 100, 101, 115, 99>>
      [] s = "lastupdated:asc" -> <<108, 97, 115, 116, 117, 112, 100, 97, 116, 101, 100, 58, 97, 115, 99>>
      [] s = "lastupdated:desc" -> <<108, 97, 115, 116, 117, 112, 100, 97, 116, 101, 100, 58, 100, 101, 115, 99>>
      [] s = "createdat:asc" -> <<99, 114, 101, 97, 116, 101, 100, 97, 116, 58, 97, 115, 99>>
      [] s = "createdat:desc" -> <<99, 114, 101, 97, 116, 101, 100, 97, 116, 58, 100, 101, 115, 99>>
      [] s = "title:asc" -> <<116, 105, 116, 108, 101, 58, 97, 115, 99>>
      [] s = "title:desc" -> <<116, 105, 116, 108, 101, 58, 100, 101, 115, 99>>
      [] s = "in-progress" -> <<105, 110, 45, 112, 114, 111, 103, 114, 101, 115, 115>>
      [] s = "coming-next" -> <<99, 111, 109, 105, 110, 103, 45, 110, 101, 120, 116>>
      [] s = "released" -> <<114, 101, 108, 101, 97, 115, 101, 100>>
      [] s = "bogus" -> <<98, 111, 103, 117, 115>>

\* strings.ToLower on a one-letter title, given by its code point
ToLower(ch) == IF ch >= 65 /\ ch <= 90 THEN ch + 32 ELSE ch

\* strings.ToLower on a string
ToLowerS(s) == [i \in 1..Len(s) |-> ToLower(s[i])]

\* unicode.IsSpace on the Latin-1 code points
IsSpace(ch) == ch \in {9, 10, 11, 12, 13, 32, 133, 160}

RECURSIVE TrimSpace(_)
\* strings.TrimSpace: the leading and the trailing white space goes
TrimSpace(s) ==
    IF s = <<>> THEN s
    ELSE IF IsSpace(Head(s)) THEN TrimSpace(Tail(s))
    ELSE IF IsSpace(s[Len(s)]) THEN TrimSpace(SubSeq(s, 1, Len(s) - 1))
    ELSE s

\* a normalizeSort that lower-cases the request and does not trim it
normalizeSort_NoTrim(in, column) ==
    LET s == ToLowerS(in)
        c == ToLowerS(column)
    IN  IF \E n \in SortNames : Codes(n) = s
        THEN CHOOSE n \in SortNames : Codes(n) = s
        ELSE IF c = Codes("released") THEN "releasedat:desc"
        ELSE IF c \in {Codes("in-progress"), Codes("coming-next")} THEN "lastupdated:desc"
        ELSE "title:asc"

\* normalizeSort(in, column), both given by their code points: in is trimmed and
\* lower-cased; one of the eight literals is returned as it is, else the default of
\* the lower-cased column
normalizeSort(in, column) ==
    LET s == ToLowerS(TrimSpace(in))
        c == ToLowerS(column)
    IN  IF \E n \in SortNames : Codes(n) = s
        THEN CHOOSE n \in SortNames : Codes(n) = s
        ELSE IF c = Codes("released") THEN "releasedat:desc"
        ELSE IF c \in {Codes("in-progress"), Codes("coming-next")} THEN "lastupdated:desc"
        ELSE "title:asc"

\* a less function that orders titles by their bytes as they are
less_CaseSensitive(sortBy, a, b) ==
    CASE sortBy = "releasedat:asc" -> a.ReleasedAt < b.ReleasedAt
      [] sortBy = "releasedat:desc" -> a.ReleasedAt > b.ReleasedAt
      [] sortBy = "lastupdated:asc" -> a.UpdatedAt < b.UpdatedAt
      [] sortBy = "lastupdated:desc" -> a.UpdatedAt > b.UpdatedAt
      [] sortBy = "createdat:asc" -> a.CreatedAt < b.CreatedAt
      [] sortBy = "createdat:desc" -> a.CreatedAt > b.CreatedAt
      [] sortBy = "title:desc" -> a.Title > b.Title
      [] OTHER -> a.Title < b.Title

\* the less function handed to sort.SliceStable
less(sortBy, a, b) ==
    CASE sortBy = "releasedat:asc" -> a.ReleasedAt < b.ReleasedAt
      [] sortBy = "releasedat:desc" -> a.ReleasedAt > b.ReleasedAt
      [] sortBy = "lastupdated:asc" -> a.UpdatedAt < b.UpdatedAt
      [] sortBy = "lastupdated:desc" -> a.UpdatedAt > b.UpdatedAt
      [] sortBy = "createdat:asc" -> a.CreatedAt < b.CreatedAt
      [] sortBy = "createdat:desc" -> a.CreatedAt > b.CreatedAt
      [] sortBy = "title:desc" -> ToLower(a.Title) > ToLower(b.Title)
      [] OTHER -> ToLower(a.Title) < ToLower(b.Title)

RECURSIVE insertStable(_, _, _)
\* x goes behind every element it is not less than
insertStable(sorted, x, sortBy) ==
    IF sorted = <<>> THEN <<x>>
    ELSE IF less(sortBy, x, Head(sorted)) THEN <<x>> \o sorted
         ELSE <<Head(sorted)>> \o insertStable(Tail(sorted), x, sortBy)

RECURSIVE SliceStable(_, _)
\* sort.SliceStable(items, less): a stable sort, here by insertion from the left
SliceStable(items, sortBy) ==
    IF items = <<>> THEN <<>>
    ELSE insertStable(SliceStable(SubSeq(items, 1, Len(items) - 1), sortBy),
                      items[Len(items)], sortBy)

\* int arithmetic wraps around
MaxInt == 2 ^ (IntBits - 1) - 1
wrap(n) == ((n + 2 ^ (IntBits - 1)) % (2 ^ IntBits)) - 2 ^ (IntBits - 1)

\* int division truncates toward zero
quot(a, b) == IF a >= 0 THEN a \div b ELSE -((-a) \div b)

\* (total + limit - 1) / limit
pageCount(total, limit) == quot(wrap(total + limit - 1), limit)

\* isoOrEmpty(t): "" for the zero time, else the time in RFC 3339, for which the
\* time in seconds stands
isoOrEmpty(t) == IF t = 0 THEN "" ELSE t

\* hive.RoadmapItem{...} built from item it for page p
dto(it, p) ==
    [ID |-> it.ID, Title |-> it.Title, Status |-> it.Status, Date |-> it.CreatedAt,
     LastModified |-> it.UpdatedAt, ETA |-> isoOrEmpty(it.ReleasedAt), Page |-> p]

RECURSIVE pagesFrom(_, _, _, _)
\* for p, offset := 1, 0; offset < total; p, offset = p+1, offset+limit
pagesFrom(items, limit, p, offset) ==
    IF ~(offset < Len(items)) THEN <<>>
    ELSE LET total == Len(items)
             e == wrap(offset + limit)
             end == IF e > total THEN total ELSE e
         IN  <<[Meta |-> [Page |-> p, Limit |-> limit,
                          TotalPages |-> pageCount(total, limit), TotalResults |-> total],
                Items |-> [i \in 1..(end - offset) |-> dto(items[offset + i], p)]]>>
             \o pagesFrom(items, limit, p + 1, wrap(offset + limit))

\* the map iteration of Fetch hands out the cards in any order
Orders(S) == {o \in [1..Cardinality(S) -> S] : \A i, j \in DOMAIN o : o[i] = o[j] => i = j}

SvcOutcomes == {"ok", "neterr", "garbage", "status"}

\* Client.Fetch as All calls it: a fresh cache entry, or a request; Do may fail, the
\* body may not decode, the error page of a status >= 400 decodes to no cards; the
\* cards are stored when caching is on
cubeFetch(outcome, ord) ==
    IF cubeReadsCache /\ cubeFresh(ccCache)
    THEN [net |-> FALSE, err |-> "none", cards |-> ccCache.body, cache |-> ccCache]
    ELSE IF outcome \in {"neterr", "garbage"}
    THEN [net |-> TRUE, err |-> IF outcome = "neterr" THEN "net" ELSE "decode",
          cards |-> <<>>, cache |-> ccCache]
    ELSE LET cards == IF outcome = "ok"
                      THEN [i \in 1..Len(ord) |->
                              [ID |-> ord[i], Status |-> feed[ord[i]].Status,
                               Title |-> feed[ord[i]].Title,
                               CreatedAt |-> feed[ord[i]].CreatedAt,
                               UpdatedAt |-> feed[ord[i]].UpdatedAt,
                               ReleasedAt |-> feed[ord[i]].ReleasedAt]]
                      ELSE <<>>
         IN  [net |-> TRUE, err |-> "none", cards |-> cards,
              cache |-> IF cubeStoresCache THEN cubeNewEntry(cards) ELSE ccCache]

\* an All that forgets the previous-status index when Fetch fails
allResult_ErrorForgetsIndex(column, limit, sortBy, outcome, ord) ==
    LET lim == IF limit <= 0 THEN 10 ELSE limit
        f == cubeFetch(outcome, ord)
        items == SliceStable(filterCards(f.cards, columnToStatus(column)),
                             normalizeSort(Codes(sortBy), Codes(column)))
        total == Len(items)
        before == [prevStatus |-> prevStatus, updates |-> updates]
        none == [net |-> f.net, err |-> f.err, panic |-> FALSE, cache |-> f.cache,
                 items |-> <<>>, pages |-> <<>>, st |-> before]
    IN  IF f.err # "none"
        THEN [none EXCEPT !.st = [prevStatus |-> <<>>, updates |-> updates]]
        ELSE IF total = 0
        THEN [none EXCEPT !.pages = <<[Meta |-> [Page |-> 1, Limit |-> lim, TotalPages |-> 1,
                                                 TotalResults |-> 0],
                                       Items |-> <<>>]>>]
        ELSE IF pageCount(total, lim) < 0
        THEN [none EXCEPT !.panic = TRUE, !.items = items,
                          !.st = recordWhole(before, items, now)]
        ELSE [none EXCEPT !.items = items, !.pages = pagesFrom(items, lim, 1, 0),
                          !.st = recordWhole(before, items, now)]

\* Service.All(ctx, column, limit, sortBy): what it returns and what it leaves behind
allResult(column, limit, sortBy, outcome, ord) ==
    LET lim == IF limit <= 0 THEN 10 ELSE limit
        f == cubeFetch(outcome, ord)
        items == SliceStable(filterCards(f.cards, columnToStatus(column)),
                             normalizeSort(Codes(sortBy), Codes(column)))
        total == Len(items)
        before == [prevStatus |-> prevStatus, updates |-> updates]
        none == [net |-> f.net, err |-> f.err, panic |-> FALSE, cache |-> f.cache,
                 items |-> <<>>, pages |-> <<>>, st |-> before]
    IN  IF f.err # "none" THEN none
        ELSE IF total = 0
        THEN [none EXCEPT !.pages = <<[Meta |-> [Page |-> 1, Limit |-> lim, TotalPages |-> 1,
                                                 TotalResults |-> 0],
                                       Items |-> <<>>]>>]
        ELSE IF pageCount(total, lim) < 0
        THEN [none EXCEPT !.panic = TRUE, !.items = items,
                          !.st = recordWhole(before, items, now)]
        ELSE [none EXCEPT !.items = items, !.pages = pagesFrom(items, lim, 1, 0),
                          !.st = recordWhole(before, items, now)]

\* Service.Page(...) on what All returned
pageResult(r, page, limit) ==
    LET pg == IF page <= 0 THEN 1 ELSE page
    IN  IF pg > Len(r.pages)
        THEN [Meta |-> [Page |-> pg, Limit |-> limit, TotalPages |-> Len(r.pages),
                        TotalResults |-> 0],
              Items |-> <<>>]
        ELSE r.pages[pg]

SvcColumns == {"coming-next", "released", "bogus"}
SvcLimits == {0, 1, 2, MaxInt}
SvcSorts == {""}
SvcPageNos == {0, 2, MaxCards + 1}
SvcStatuses == {"Testing", "Released"}

\* the service call goes through, whole: Fetch, filter, sort, record, paginate
SvcCall(op, column, page, limit, sortBy, outcome, ord) ==
    /\ provider = "cubecraft"
    /\ svc.pc = "idle"
    /\ LET r == allResult(column, limit, sortBy, outcome, ord)
       IN  /\ Len(r.st.updates) <= MaxLog
           /\ ccCache' = r.cache
           /\ prevStatus' = r.st.prevStatus
           /\ updates' = r.st.updates
           /\ svc' = [pc |-> "ret", op |-> op, column |-> column, limit |-> limit,
                      pageNo |-> page, net |-> r.net, err |-> r.err, panic |-> r.panic,
                      items |-> r.items, pages |-> r.pages,
                      page |-> IF op = "Page" /\ r.err = "none" /\ ~r.panic
                               THEN pageResult(r, page, limit)
                               ELSE [Meta |-> [Page |-> 0, Limit |-> 0, TotalPages |-> 0,
                                               TotalResults |-> 0],
                                     Items |-> <<>>]]
           /\ seen' = IF r.err = "none" /\ ~r.panic
                      THEN [id \in DOMAIN feed |-> feed[id].Status] ELSE seen
    /\ UNCHANGED <<provider, now, mu, tr, cacheTTL, cache, upstream, cg, stored,
                   fetchVars, feed, lockVars>>

\* Service.All(ctx, column, limit, sortBy)
All(column, limit, sortBy, outcome, ord) ==
    SvcCall("All", column, 0, limit, sortBy, outcome, ord)

\* Service.Page(ctx, column, page, limit, sortBy)
Page(column, page, limit, sortBy, outcome, ord) ==
    SvcCall("Page", column, page, limit, sortBy, outcome, ord)

\* the caller has its answer
SvcReturn ==
    /\ svc.pc = "ret"
    /\ svc' = Idle
    /\ UNCHANGED <<provider, now, trackerVars, cacheVars, fetchVars, feed, seen, lockVars>>

\* the provider moves a card to another status
StatusChange(id, status) ==
    /\ svc.pc = "idle"
    /\ id \in DOMAIN feed
    /\ feed[id].Status # status
    /\ feed' = [feed EXCEPT ![id].Status = status]
    /\ UNCHANGED <<provider, now, trackerVars, cacheVars, fetchVars, svc, seen, lockVars>>

\* no mutex is held
NoLocks ==
    /\ ccMu = [w |-> 0, r |-> {}]
    /\ resMu = 0

\* no cubecraft service call: no cards, no call
NoSvc ==
    /\ feed = <<>>
    /\ svc = Idle
    /\ seen = <<>>

\* the wall clock advances
Tick ==
    /\ now < MaxClock
    /\ now' = now + 1
    /\ stored' = [hive |-> [u \in DOMAIN stored.hive |-> Unexpired(stored.hive[u], now + 1)],
                   cube |-> Unexpired(stored.cube, now + 1)]
    /\ UNCHANGED <<provider, trackerVars, cacheTTL, cache, ccCache, upstream, cg, fetchVars,
                   svcVars, lockVars>>

\* NewService: empty index, empty log
InitTrackerVars ==
    /\ prevStatus = <<>>
    /\ updates = <<>>
    /\ mu = 0
    /\ tr = [g \in Procs |-> Idle]

InitTracker ==
    /\ provider \in Providers
    /\ now = 0
    /\ InitTrackerVars
    /\ InitCacheVars({0}, CacheURLs)
    /\ NoFetch
    /\ NoSvc
    /\ NoLocks

NextTracker ==
    \/ \E g \in TrackerProcs : \E items \in ItemSeqs : RecordCall(g, items)
    \/ \E g \in TrackerProcs : RecordLock(g)
    \/ \E g \in TrackerProcs : RecordItem(g)
    \/ \E g \in TrackerProcs : RecordReturn(g)
    \/ \E g \in TrackerProcs : RecordAgain(g)
    \/ \E g \in TrackerProcs : UpdatesCall(g)
    \/ \E g \in TrackerProcs : UpdatesLock(g)
    \/ \E g \in TrackerProcs : UpdatesReturn(g)
    \/ Tick

SpecTracker == InitTracker /\ [][NextTracker]_vars

\* ------------------------------------------------------ the cache, alone
InitCache ==
    /\ provider \in Providers
    /\ now = 0
    /\ InitTrackerVars
    /\ InitCacheVars(TTLs, CacheURLs)
    /\ NoFetch
    /\ NoSvc
    /\ NoLocks

NextCache ==
    \/ \E g \in Procs : \E u \in CacheURLs : \E bypass \in BOOLEAN : HiveGetLoad(g, u, bypass)
    \/ \E g \in Procs : HiveGetDelete(g)
    \/ \E g \in Procs : \E outcome \in HiveOutcomes : HiveGetResp(g, outcome)
    \/ \E g \in Procs : CubeFetchCheck(g)
    \/ \E g \in Procs : \E outcome \in CubeOutcomes : CubeFetchResp(g, outcome)
    \/ UpstreamChange
    \/ Tick

SpecCache == InitCache /\ [][NextCache]_vars

\* ------------------------------------------- one GetAll / FetchAllPages call
FetchTTLs == {0, 2}
FetchURLs == 1..MaxPages

\* an option that takes the number of workers as it is given
WithMaxConcurrency_NoClamp(n) == n

\* WithMaxConcurrency(n): if n < 1 { n = 1 }; c.maxConcurrency = n
WithMaxConcurrency(n) == IF n < 1 THEN 1 ELSE n

\* the numbers a caller may hand to WithMaxConcurrency
ConcurrencyArgs == -1..MaxWorkers

\* a client whose cache may hold fresh pages from earlier GetPage calls
InitFetch ==
    /\ provider = "hive"
    /\ now = 0
    /\ InitTrackerVars
    /\ cacheTTL \in FetchTTLs
    /\ cache \in [FetchURLs -> {NoEntry} \cup
                     (IF cacheTTL > 0
                      THEN {Entry([ver |-> 1, kind |-> k], cacheTTL) : k \in {"data", "garbage"}}
                      ELSE {})]
    /\ ccCache = NoEntry
    /\ upstream = 1
    /\ cg = [g \in Procs |-> Idle]
    /\ stored = [hive |-> [u \in FetchURLs |-> NoEntry], cube |-> NoEntry]
    /\ InitFetchVars(Queries, UpTotals, {WithMaxConcurrency(n) : n \in ConcurrencyArgs})
    /\ NoSvc
    /\ NoLocks

NextFetch ==
    \/ FapCall
    \/ \E outcome \in FetchOutcomes : FapFirstResp(outcome)
    \/ \E w \in Workers : Dispatch(w)
    \/ \E w \in Workers : \E outcome \in FetchOutcomes : WorkerResp(w, outcome)
    \/ CloseJobs
    \/ \E w \in Workers : WorkerExit(w)
    \/ FapReturn
    \/ Cancel

SpecFetch == InitFetch /\ [][NextFetch]_vars

\* the same call when every step that can be taken is taken in the end: every request
\* is answered, the goroutines of the dispatcher and of the workers are scheduled
SpecFetchLive ==
    /\ InitFetch
    /\ [][NextFetch]_vars
    /\ WF_vars(FapCall)
    /\ WF_vars(\E outcome \in FetchOutcomes : FapFirstResp(outcome))
    /\ WF_vars(\E w \in Workers : Dispatch(w))
    /\ WF_vars(\E w \in Workers : \E outcome \in FetchOutcomes : WorkerResp(w, outcome))
    /\ WF_vars(CloseJobs)
    /\ WF_vars(\E w \in Workers : WorkerExit(w))
    /\ WF_vars(FapReturn)

\* --------------------------- the tracker under concurrent record and Updates
\* every record call brings a full page of distinct items
ConcItemSeqs == {items \in ItemSeqs : Len(items) = MaxItems /\ UniqueIDs(items)}

NextConc ==
    \/ \E g \in Procs : \E items \in ConcItemSeqs : RecordCall(g, items)
    \/ \E g \in Procs : RecordLock(g)
    \/ \E g \in Procs : RecordItem(g)
    \/ \E g \in Procs : RecordReturn(g) /\ tr'[g].pc = "idle"
    \/ \E g \in Procs : UpdatesCall(g)
    \/ \E g \in Procs : UpdatesLock(g)
    \/ \E g \in Procs : UpdatesReturn(g)
    \/ Tick

SpecConc == InitTracker /\ [][NextConc]_vars

\* ------------------------- the filter and the sort of All on drawn card lists
\* cards with two titles that the case decides ('B', 'a') and three instants, two of
\* them within one second
SortCards ==
    {[Status |-> st, Title |-> ti, UpdatedAt |-> t, CreatedAt |-> 3000 - t,
      ReleasedAt |-> IF t = 2000 THEN 1 ELSE 0] :
        st \in SvcStatuses, ti \in {66, 97}, t \in {1000, 1500, 2000}}

\* what Fetch hands to All: cards with distinct identifiers
CardLists ==
    UNION {{[i \in 1..n |->
               [ID |-> CardNames[i], Status |-> f[i].Status, Title |-> f[i].Title,
                CreatedAt |-> f[i].CreatedAt, UpdatedAt |-> f[i].UpdatedAt,
                ReleasedAt |-> f[i].ReleasedAt]] : f \in [1..n -> SortCards]} :
           n \in 0..MaxSortLen}

SortInputs == SortNames \cup {""}

InitItems ==
    /\ provider = "cubecraft"
    /\ now = 0
    /\ InitTrackerVars
    /\ InitCacheVars({0}, CacheURLs)
    /\ NoFetch
    /\ NoLocks
    /\ feed = <<>>
    /\ seen = <<>>
    /\ svc \in [pc : {"in"}, cards : CardLists, column : SvcColumns, sortBy : SortInputs]

\* lines 81-138 of All: the filter, then the sort
FilterAndSort ==
    /\ svc.pc = "in"
    /\ LET filtered == filterCards(svc.cards, columnToStatus(svc.column))
       IN  svc' = [pc |-> "out", cards |-> svc.cards, column |-> svc.column,
                   sortBy |-> svc.sortBy, filtered |-> filtered,
                   items |-> SliceStable(filtered,
                                        normalizeSort(Codes(svc.sortBy), Codes(svc.column)))]
    /\ UNCHANGED <<provider, now, trackerVars, cacheVars, fetchVars, feed, seen, lockVars>>

NextItems == FilterAndSort

SpecItems == InitItems /\ [][NextItems]_vars

\* ---------------------------------- one cubecraft service under successive calls
SvcTTLs == {0, 2}
SvcCards == [Status : SvcStatuses, Title : {97}, CreatedAt : {1000}, UpdatedAt : {1000},
             ReleasedAt : {0}]
Feeds(cards) == UNION {[S -> cards] : S \in SUBSET CardIDs}

InitAll ==
    /\ provider = "cubecraft"
    /\ now = 0
    /\ InitTrackerVars
    /\ InitCacheVars(SvcTTLs, CacheURLs)
    /\ NoFetch
    /\ NoLocks
    /\ feed \in Feeds(SvcCards)
    /\ svc = Idle
    /\ seen = <<>>

NextAll ==
    \/ \E column \in SvcColumns, limit \in SvcLimits, sortBy \in SvcSorts,
          outcome \in SvcOutcomes, ord \in Orders(DOMAIN feed) :
          All(column, limit, sortBy, outcome, ord)
    \/ \E column \in SvcColumns, page \in SvcPageNos, limit \in SvcLimits,
          sortBy \in SvcSorts, outcome \in SvcOutcomes, ord \in Orders(DOMAIN feed) :
          Page(column, page, limit, sortBy, outcome, ord)
    \/ SvcReturn
    \/ \E id \in CardIDs, status \in SvcStatuses : StatusChange(id, status)

SpecAll == InitAll /\ [][NextAll]_vars

\* ------------------------------------------- claims on FetchAllPages / GetAll
FetchDone == fp.pc = "done"

\* the call went through the worker pool
Pooled == FetchDone /\ "total" \in DOMAIN fp

\* C1: a successful FetchAllPages call that starts with an empty cache, for an upstream
\* with P >= 1 pages and whatever the Page field of the base query, has issued exactly
\* one upstream request for each page 1..P and returns P responses, the i-th being the
\* response for page i.
C1_EachPageFetchedOnceInOrder ==
    (FetchDone /\ ret.err = NoErr /\ fh.cached0 = {} /\ upTotal >= 1)
    => /\ \A p \in DOMAIN fh.reqs : fh.reqs[p] = (IF p <= upTotal THEN 1 ELSE 0)
       /\ ret.pages = [i \in 1..upTotal |-> i]

\* C2: when the fetch of any page has failed (request error, status >= 400, or a body
\* that does not decode), FetchAllPages and GetAll return an error and no pages, even
\* if other pages were fetched; the error of a pooled call is the first one a worker
\* recorded.
C2_AnyFailureFailsAll ==
    (FetchDone /\ fh.nFail > 0)
    => /\ ret.err # NoErr
       /\ ret.pages = <<>>
       /\ gaRet.err = ret.err
       /\ gaRet.pages = <<>>
       /\ fh.firstRec # NoErr => ret.err = fh.firstRec

\* C2 witness: a pooled call in which two workers' fetches failed, after the first page
\* had been fetched, has returned the first recorded error
C2_Witness ==
    /\ Pooled
    /\ fh.nFail >= 2
    /\ fp.results[1] # 0
    /\ ret.err = fh.firstRec
    /\ ret.err # NoErr
    /\ ret.pages = <<>>

\* C3: once a worker has recorded an error, no upstream request is issued for a page
\* number that was not already in flight.
C3_NoRequestAfterFirstError == ~fh.late

\* C4: when the context is cancelled while page numbers are still to be handed out,
\* the call returns a cancellation error, never a result, and it returns without
\* having handed out every remaining page number; also with pages in the cache.
C4_CancelStopsTheFetch ==
    (Pooled /\ fh.cancelLeft > 0)
    => /\ ret.err # NoErr
       /\ ret.err.kind = "canceled"
       /\ fp.p <= fp.total

\* ----------------------------------------- claims on the service-level fetches
\* a service call goes through in this step, and it succeeds
SvcSucceeds == svc.pc = "idle" /\ svc'.pc = "ret" /\ svc'.err = "none" /\ ~svc'.panic

\* the entries the step appends for card id: those behind the entries that were kept
AppendedFor(id) ==
    LET kept == Len(cubePrune(updates, now - Retention))
    IN  {k \in (kept + 1)..Len(updates') : updates'[k].Item.ID = id}

\* C11: when a card had status A upstream at the last successful fetch and has status
\* B # A at this successful fetch, the fetch appends exactly one ChangeEntry for the
\* card, with From = A and To = B; when its status is unchanged, the fetch appends no
\* entry for it.
C11_ChangeDetectedOnce ==
    [][SvcSucceeds =>
         \A id \in DOMAIN seen \cap DOMAIN feed :
            IF seen[id] # feed[id].Status
            THEN /\ Cardinality(AppendedFor(id)) = 1
                 /\ \A k \in AppendedFor(id) :
                        /\ updates'[k].From = mapStatusLabel(seen[id])
                        /\ updates'[k].To = mapStatusLabel(feed[id].Status)
            ELSE AppendedFor(id) = {}]_vars

\* --------------------------------------------------- claims on the caches
\* C5: in both caches (hive get, cubecraft Fetch) a cached entry is served only while
\* the current time is strictly before its expiry, and a fetch that finds an entry at or
\* after its expiry does not return it: its answer comes from upstream.
C5_OnlyFreshEntriesServed ==
    \A g \in Procs :
        cg[g].pc = "ret" =>
            /\ cg[g].src = "cache" => cg[g].left > 0
            /\ cg[g].stale => cg[g].src = "upstream"

\* C5 witness: a fetch found an expired entry and came back with upstream's data
C5_Witness ==
    \E g \in Procs :
        /\ cg[g].pc = "ret"
        /\ cg[g].stale
        /\ cg[g].src = "upstream"
        /\ cg[g].body.kind = "data"

\* C6: with a positive TTL and no bypass, once a successful fetch has stored v under a
\* key, a fetch of that key that starts strictly before v's expiry (and before any newer
\* store replaced v) returns exactly v, from the cache, without an upstream request.
C6_StoredValueServedUntilExpiry ==
    \A g \in Procs :
        cg[g].pc \in {"delete", "inflight", "ret"} =>
            \A v \in cg[g].expect :
                cg[g].pc = "ret" /\ cg[g].src = "cache" /\ cg[g].body = v

\* C7: with a TTL of zero or less every fetch is a miss: nothing is ever stored in
\* either cache and every answer comes from an upstream request.
C7_NoCachingWithoutTTL ==
    cacheTTL <= 0 =>
        /\ \A u \in DOMAIN cache : cache[u] = NoEntry
        /\ ccCache = NoEntry
        /\ \A g \in Procs : cg[g].pc # "delete"
        /\ \A g \in Procs : cg[g].pc = "ret" => cg[g].src = "upstream"

\* C7 witness: with a TTL of zero or less, two fetches have both come back with data
C7_Witness ==
    /\ cacheTTL <= 0
    /\ \A g \in Procs : cg[g].pc = "ret" /\ ~cg[g].bypass /\ cg[g].body.kind = "data"

\* ------------------------------------------------- claims on the tracker
\* goroutine g takes one iteration of the record loop in this step
ItemStep(g) ==
    /\ tr[g].pc = "rec_loop"
    /\ tr'[g].pc = "rec_loop"
    /\ tr'[g].i = tr[g].i + 1

CurItem(g) == tr[g].items[tr[g].i]

\* C8: when the record loop (hive recordChanges, cubecraft recordStatusChanges) sees an
\* item whose identifier is not in the previous-status index, it stores the item's
\* status under that identifier, leaves every other index entry alone and appends no
\* ChangeEntry.
C8_UnseenStoredSilently ==
    [][\A g \in Procs :
         (ItemStep(g) /\ CurItem(g).ID \notin DOMAIN prevStatus)
         => /\ DOMAIN prevStatus' = DOMAIN prevStatus \cup {CurItem(g).ID}
            /\ prevStatus'[CurItem(g).ID] = CurItem(g).Status
            /\ \A k \in DOMAIN prevStatus : prevStatus'[k] = prevStatus[k]
            /\ updates' = updates]_vars

\* C8 witness: an iteration has just handled a first-seen identifier
C8_Witness ==
    \E g \in Procs :
        /\ tr[g].pc = "rec_loop"
        /\ tr[g].kind = "first"
        /\ tr[g].i > 1
        /\ prevStatus[tr[g].items[tr[g].i - 1].ID] = tr[g].items[tr[g].i - 1].Status

\* C9: when the record loop sees an item whose identifier is in the index with a
\* different status, it appends exactly one ChangeEntry with From = the indexed status
\* and To = the item's status and sets the index to the item's status; when the indexed
\* status equals the item's status, neither the log nor the index changes.
C9_ChangedAppendsOne ==
    [][\A g \in Procs :
         (ItemStep(g) /\ CurItem(g).ID \in DOMAIN prevStatus)
         => IF prevStatus[CurItem(g).ID] # CurItem(g).Status
            THEN /\ Len(updates') = Len(updates) + 1
                 /\ SubSeq(updates', 1, Len(updates)) = updates
                 /\ updates'[Len(updates')].From = prevStatus[CurItem(g).ID]
                 /\ updates'[Len(updates')].To = CurItem(g).Status
                 /\ updates'[Len(updates')].Item = CurItem(g)
                 /\ prevStatus' = [prevStatus EXCEPT ![CurItem(g).ID] = CurItem(g).Status]
            ELSE /\ updates' = updates
                 /\ prevStatus' = prevStatus]_vars

\* C9 witness: an iteration has just recorded a status change
C9_Witness ==
    \E g \in Procs :
        /\ tr[g].pc = "rec_loop"
        /\ tr[g].kind = "changed"
        /\ updates # <<>>
        /\ updates[Len(updates)].Item = tr[g].items[tr[g].i - 1]

\* C10: a record call that repeats, with the same items (unique identifiers), the call
\* that returned immediately before it appends no ChangeEntry and leaves the index as
\* the first call left it, whatever the tracker state before the first call.
C10_RepeatIsSilent ==
    [][\A g \in Procs :
         (tr[g].pc = "rec_loop" /\ tr[g].rep = 2 /\ UniqueIDs(tr[g].items))
         => (prevStatus' = prevStatus /\ updates' = updates)]_vars

\* C10 witness: the repeated call has run its loop to the end, after a first call that
\* did record a change
C10_Witness ==
    \E g \in Procs :
        /\ tr[g].pc = "rec_loop"
        /\ tr[g].rep = 2
        /\ UniqueIDs(tr[g].items)
        /\ tr[g].items # <<>>
        /\ tr[g].i > Len(tr[g].items)
        /\ \E k \in 1..Len(updates) :
              updates[k].At = tr[g].at /\ updates[k].Item \in Range(tr[g].items)

\* ------------------------------------------ claims on the retention window
\* goroutine g takes the lock in record and prunes in this step
PruneStep(g) == tr[g].pc = "rec_lock" /\ tr'[g].pc = "rec_loop"

\* goroutine g takes the lock in Updates and collects its result in this step
ReadStep(g) == tr[g].pc = "upd_lock" /\ tr'[g].pc = "upd_ret"

\* C12: with keepAfter = (the call's now) - 24h, record keeps, in order, every entry
\* detected one unit after keepAfter or later and removes every entry detected at
\* keepAfter or before; Updates returns the former and none of the latter, so never an
\* entry detected 24 hours or more before the read.
C12_RetentionWindow ==
    [][\A g \in Procs :
         /\ PruneStep(g) =>
              /\ \A k \in 1..Len(updates) :
                    updates[k].At >= tr[g].at - Retention + 1
                    => \E j \in 1..Len(updates') : updates'[j] = updates[k]
              /\ \A j \in 1..Len(updates') : updates'[j].At > tr[g].at - Retention
              /\ \A k \in 1..Len(updates) :
                    updates[k].At <= tr[g].at - Retention - 1
                    => \A j \in 1..Len(updates') : updates'[j] # updates[k]
         /\ ReadStep(g) =>
              /\ \A k \in 1..Len(updates) :
                    updates[k].At >= tr[g].keepAfter + 1
                    => \E j \in 1..Len(tr'[g].out) : tr'[g].out[j] = updates[k]
              /\ \A j \in 1..Len(tr'[g].out) :
                    /\ tr'[g].out[j].At > tr[g].keepAfter
                    /\ tr'[g].out[j] \in Range(updates)]_vars

\* C12 witness: Updates has read a log that holds an entry detected one unit before
\* keepAfter, and its result leaves that entry out
C12_Witness ==
    \E g \in Procs :
        /\ tr[g].pc = "upd_ret"
        /\ \E k \in 1..Len(updates) :
              /\ updates[k].At = tr[g].keepAfter - 1
              /\ updates[k] \notin Range(tr[g].out)

\* C13: when Updates is about to return, the stored log holds no entry outside the
\* retention window of the call, as after record.
C13_UpdatesPrunesLog ==
    \A g \in Procs :
        tr[g].pc = "upd_ret" =>
            \A k \in 1..Len(updates) : updates[k].At > tr[g].keepAfter

\* the status of the last occurrence of identifier id in items
LastStatus(items, id) ==
    LET last == CHOOSE i \in 1..Len(items) :
                    /\ items[i].ID = id
                    /\ \A j \in (i + 1)..Len(items) : items[j].ID # id
    IN  items[last].Status

\* C15: no step removes an identifier from the previous-status index, and when a
\* record call returns, the index maps every identifier of its items to the status of
\* the identifier's last occurrence in the items.
C15_IndexOnlyGrows ==
    [][/\ DOMAIN prevStatus \subseteq DOMAIN prevStatus'
       /\ \A g \in Procs :
            (tr[g].pc = "rec_loop" /\ tr'[g].pc \in {"idle", "rec_ret"})
            => \A i \in 1..Len(tr[g].items) :
                  /\ tr[g].items[i].ID \in DOMAIN prevStatus'
                  /\ prevStatus'[tr[g].items[i].ID]
                       = LastStatus(tr[g].items, tr[g].items[i].ID)]_vars

\* C15 witness: a record call whose items name one identifier twice, with two
\* statuses, is at its end, and the index holds the second status
C15_Witness ==
    \E g \in Procs :
        /\ tr[g].pc = "rec_loop"
        /\ Len(tr[g].items) = 2
        /\ tr[g].i > 2
        /\ tr[g].items[1].ID = tr[g].items[2].ID
        /\ tr[g].items[1].Status # tr[g].items[2].Status
        /\ prevStatus[tr[g].items[2].ID] = tr[g].items[2].Status
        /\ updates # <<>>

\* --------------------------------------- claims on concurrent tracker calls
\* the goroutines inside the critical section of record or Updates
InCritical == {g \in Procs : tr[g].pc \in {"rec_loop", "upd_ret"}}

\* C14: at most one record or Updates call is inside the critical section, it is the
\* one that holds the mutex, and the result an Updates call holds is the in-window
\* part of the log as it stands, which no record call is changing meanwhile: the log
\* before or after each concurrent record call, never one in between.
C14_OneAtATime ==
    /\ Cardinality(InCritical) <= 1
    /\ \A g \in Procs : g \in InCritical <=> mu = g
    /\ \A g \in Procs :
          tr[g].pc = "upd_ret" =>
              /\ tr[g].out = SelectSeq(updates, LAMBDA u : u.At > tr[g].keepAfter)
              /\ \A h \in Procs : tr[h].pc # "rec_loop"

\* C14 witness: an Updates call holds a result with an entry while a record call
\* with two items waits for the mutex
C14_Witness ==
    \E g, h \in Procs :
        /\ tr[g].pc = "upd_ret"
        /\ tr[g].out # <<>>
        /\ tr[h].pc = "rec_lock"
        /\ Len(tr[h].items) = 2

\* ------------------------------------- claims on cubecraft Service.All / Page
\* a service call has returned from a fetch that gave cards
SvcAnswered == svc.pc = "ret" /\ svc.err = "none"

\* max(1, ceil(n / l))
PagesFor(n, l) == IF n = 0 THEN 1 ELSE (n + l - 1) \div l

\* C16: for a page size L >= 1 and N filtered items, All returns max(1, ceil(N/L))
\* pages, each reporting TotalPages = max(1, ceil(N/L)) and TotalResults = N; for
\* N = 0 that is one page numbered 1 with no items.
C16_PageCount ==
    (SvcAnswered /\ svc.op = "All" /\ svc.limit >= 1)
    => LET n == Len(svc.items)
       IN  /\ ~svc.panic
           /\ Len(svc.pages) = PagesFor(n, svc.limit)
           /\ \A i \in 1..Len(svc.pages) :
                 /\ svc.pages[i].Meta.TotalPages = PagesFor(n, svc.limit)
                 /\ svc.pages[i].Meta.TotalResults = n
           /\ n = 0 => /\ svc.pages[1].Meta.Page = 1
                       /\ svc.pages[1].Items = <<>>

\* C17: Page, asked for a page number beyond the last page, returns without error a
\* page with no items that reports the real page count and the real number of
\* filtered items.
C17_BeyondLastPage ==
    (SvcAnswered /\ ~svc.panic /\ svc.op = "Page" /\ svc.pageNo > Len(svc.pages))
    => /\ svc.page.Items = <<>>
       /\ svc.page.Meta.TotalPages = Len(svc.pages)
       /\ svc.page.Meta.TotalResults = Len(svc.items)

\* C19: a query for a column that is not one of the recognized columns is rejected
\* with an error and no upstream request is issued for it: hive FetchAllPages / GetAll
\* and cubecraft All / Page.
C19_UnknownColumnRejected ==
    /\ (fp.pc = "done" /\ statusID(base) # "none")
       => /\ ret.err # NoErr
          /\ gaRet.err # NoErr
          /\ \A u \in DOMAIN fh.reqs : fh.reqs[u] = 0
    /\ (svc.pc = "ret" /\ svc.column \notin {"in-progress", "coming-next", "released"})
       => /\ svc.err # "none"
          /\ ~svc.net

\* ------------------------------------ claims on the filter and the sort of All
\* the key an item is ordered by under a sort name
SortKey(name, it) ==
    CASE name \in {"releasedat:asc", "releasedat:desc"} -> it.ReleasedAt
      [] name \in {"lastupdated:asc", "lastupdated:desc"} -> it.UpdatedAt
      [] name \in {"createdat:asc", "createdat:desc"} -> it.CreatedAt
      [] OTHER -> IF it.Title >= 65 /\ it.Title <= 90 THEN it.Title + 32 ELSE it.Title

Descending(name) ==
    name \in {"releasedat:desc", "lastupdated:desc", "createdat:desc", "title:desc"}

\* the sort in force: the requested one, or the default of the column
SortInForce ==
    IF svc.sortBy \in SortNames THEN svc.sortBy
    ELSE IF svc.column = "released" THEN "releasedat:desc"
    ELSE IF svc.column \in {"in-progress", "coming-next"} THEN "lastupdated:desc"
    ELSE "title:asc"

\* where the item with identifier id stands in items
PosOf(items, id) == CHOOSE i \in 1..Len(items) : items[i].ID = id

\* C18: the sorted output holds the filtered items, ordered by the key of the sort in
\* force in its direction (titles without regard to case, dates by instant), and two
\* items with equal keys stand in the order they had before the sort.
C18_SortedAndStable ==
    svc.pc = "out" =>
        /\ Len(svc.items) = Len(svc.filtered)
        /\ Range(svc.items) = Range(svc.filtered)
        /\ \A i, j \in 1..Len(svc.items) :
              i < j =>
                 LET ki == SortKey(SortInForce, svc.items[i])
                     kj == SortKey(SortInForce, svc.items[j])
                 IN  /\ IF Descending(SortInForce) THEN ki >= kj ELSE ki <= kj
                     /\ ki = kj => PosOf(svc.filtered, svc.items[i].ID)
                                     < PosOf(svc.filtered, svc.items[j].ID)

\* C18 witness: three items were sorted by title; the sort moved an item forward and
\* kept two items of equal key, whose titles differ in nothing, in their order
C18_Witness ==
    /\ svc.pc = "out"
    /\ SortInForce = "title:asc"
    /\ Len(svc.items) = 3
    /\ svc.items # svc.filtered
    /\ \E i \in 1..2 : SortKey("title:asc", svc.items[i]) = SortKey("title:asc", svc.items[i + 1])
    /\ \E i \in 1..3 : svc.items[i].Title = 66

\* the native statuses of a recognized column
StatusesOf(column) ==
    CASE column = "in-progress" -> {"In Progress"}
      [] column = "coming-next" -> {"Testing"}
      [] column = "released" -> {"Released"}
      [] OTHER -> {}

\* C20: the filter keeps, in order, exactly the cards whose native status is in the
\* status set of the column, and every card when the column has no mapped statuses.
C20_ColumnFilter ==
    svc.pc = "out" =>
        LET keep == SelectSeq(svc.cards,
                              LAMBDA c : StatusesOf(svc.column) = {}
                                         \/ c.Status \in StatusesOf(svc.column))
        IN  /\ Len(svc.filtered) = Len(keep)
            /\ \A i \in 1..Len(keep) : svc.filtered[i].ID = keep[i].ID

\* C20 witness: a column without mapped statuses kept three cards of two statuses
C20_Witness ==
    /\ svc.pc = "out"
    /\ StatusesOf(svc.column) = {}
    /\ Len(svc.filtered) = 3
    /\ \E i, j \in 1..3 : svc.cards[i].Status # svc.cards[j].Status

\* --------------------------------------------------------------- C21..C30

\* a fetch came back from a response with a non-success status: hive get names the
\* status in its error, cubecraft Fetch parsed the error page
GotStatus(c) == c.pc = "ret" /\ (c.err = "status" \/ c.body.kind = "errpage")

\* C21: for both providers, a response with a non-success HTTP status makes the fetch
\* return an error to its caller and stores nothing in the response cache.
C21_StatusFailsAndStoresNothing ==
    /\ \A g \in Procs : GotStatus(cg[g]) => cg[g].err # "none" /\ cg[g].body = NoBody
    /\ \A u \in DOMAIN cache : cache[u].ok => cache[u].body.kind # "errpage"
    /\ ccCache.ok => ccCache.body.kind # "errpage"

\* ---------------------------------------------------------- the handlers
\* net/http status codes the handlers answer with
StatusOK == 200
StatusBadRequest == 400
StatusBadGateway == 502

\* hive ValidateColumn(col): the column must be a key of columnToStatusID
ValidateColumn(col) == IF col \in columnToStatusID THEN "none" ELSE "column"

\* hive Handlers.ByColumn, for the query q and what GetAll returned for it: an unknown
\* column is answered with 400 before any call; any error of GetAll is answered with
\* 502 and the error's text; else 200 and the flattened pages
hiveByColumn(q, r) ==
    IF ValidateColumn(q.Column) # "none"
    THEN [code |-> StatusBadRequest, error |-> "column", items |-> <<>>]
    ELSE IF r.err # NoErr
         THEN [code |-> StatusBadGateway, error |-> r.err.kind, items |-> <<>>]
         ELSE [code |-> StatusOK, error |-> "none",
               items |-> Flatten([i \in 1..Len(r.pages) |-> r.pages[i].Items])]

\* the status code the handler answers with when the upstream is unavailable
UnavailableCode ==
    hiveByColumn([Column |-> "released"], [pages |-> <<>>, err |-> Err(1, "net")]).code

\* C22: a query-by-column call that fails reports an error whose kind the caller can
\* tell apart: a malformed upstream payload (decode failure) is not reported with the
\* status code of an unavailable upstream (network failure or non-success status).
C22_MalformedToldApartFromUnavailable ==
    (FetchDone /\ gaRet.err.kind = "decode") =>
        hiveByColumn(base, gaRet).code # UnavailableCode

\* ------------------------------------------------- the locks, step by step
\* the items the service hands to the tracker for a body: one item, whose status
\* follows the version of the data
ItemsOf(body) ==
    <<[ID |-> "a", Status |-> IF body.ver % 2 = 1 THEN "In Progress" ELSE "Released"]>>

lockRest == <<provider, now, cacheTTL, cache, upstream, trackerVars, fetchVars, svcVars, resMu>>

\* cubecraft Fetch: if c.cacheTTL > 0 { c.mu.RLock(); without caching the request
\* goes out at once
FetchRLock(g) ==
    /\ provider = "cubecraft"
    /\ CanCall(g)
    /\ IF cubeReadsCache
       THEN /\ ccMu.w = 0
            /\ ccMu' = [ccMu EXCEPT !.r = @ \cup {g}]
            /\ cg' = [cg EXCEPT ![g] = Flight("rlocked", 0, FALSE, FALSE, {})]
       ELSE /\ cg' = [cg EXCEPT ![g] = Flight("inflight", 0, FALSE, FALSE, {})]
            /\ UNCHANGED ccMu
    /\ UNCHANGED <<lockRest, ccCache, stored>>

\* a read that goes to the request with the read lock still held
FetchRUnlock_HeldOnMiss(g) ==
    /\ provider = "cubecraft"
    /\ cg[g].pc = "rlocked"
    /\ IF cubeFresh(ccCache)
       THEN /\ cg' = [cg EXCEPT ![g] =
                        Ret(FALSE, "cache", "none", ccCache.body, ccCache.expiresAt - now,
                            FALSE, {})]
            /\ ccMu' = [ccMu EXCEPT !.r = @ \ {g}]
       ELSE /\ cg' = [cg EXCEPT ![g] = Flight("inflight", 0, FALSE, ccCache.ok, {})]
            /\ UNCHANGED ccMu
    /\ UNCHANGED <<lockRest, ccCache, stored>>

\* cubecraft Fetch: under the read lock a fresh entry's data is taken; c.mu.RUnlock()
\* runs on both branches, before the return and before the request is built
FetchRUnlock(g) ==
    /\ provider = "cubecraft"
    /\ cg[g].pc = "rlocked"
    /\ cg' = [cg EXCEPT ![g] =
                IF cubeFresh(ccCache)
                THEN Ret(FALSE, "cache", "none", ccCache.body, ccCache.expiresAt - now,
                         FALSE, {})
                ELSE Flight("inflight", 0, FALSE, ccCache.ok, {})]
    /\ ccMu' = [ccMu EXCEPT !.r = @ \ {g}]
    /\ UNCHANGED <<lockRest, ccCache, stored>>

\* cubecraft Fetch: the response arrives and is parsed; with caching on the cards
\* wait for the write lock
FetchDo(g, outcome) ==
    /\ provider = "cubecraft"
    /\ cg[g].pc = "inflight"
    /\ LET c == cg[g]
           cards == Body(IF outcome = "ok" THEN "data" ELSE "errpage")
       IN  cg' = [cg EXCEPT ![g] =
                    IF outcome \in {"neterr", "garbage"}
                    THEN Ret(FALSE, "upstream",
                             IF outcome = "neterr" THEN "net" ELSE "decode",
                             NoBody, 0, c.stale, {})
                    ELSE IF cubeStoresCache
                         THEN [pc |-> "lock", body |-> cards, stale |-> c.stale]
                         ELSE Ret(FALSE, "upstream", "none", cards, 0, c.stale, {})]
    /\ UNCHANGED <<lockRest, ccCache, stored, ccMu>>

\* cubecraft Fetch: c.mu.Lock()
FetchLock(g) ==
    /\ provider = "cubecraft"
    /\ cg[g].pc = "lock"
    /\ ccMu = [w |-> 0, r |-> {}]
    /\ ccMu' = [ccMu EXCEPT !.w = g]
    /\ cg' = [cg EXCEPT ![g].pc = "locked"]
    /\ UNCHANGED <<lockRest, ccCache, stored>>

\* cubecraft Fetch: c.cache = &cacheEntry{...}; c.mu.Unlock(); return cards, nil
FetchStore(g) ==
    /\ provider = "cubecraft"
    /\ cg[g].pc = "locked"
    /\ LET e == cubeNewEntry(cg[g].body)
       IN  /\ ccCache' = e
           /\ stored' = [stored EXCEPT !.cube = Unexpired(e, now)]
    /\ ccMu' = [ccMu EXCEPT !.w = 0]
    /\ cg' = [cg EXCEPT ![g] =
                Ret(FALSE, "upstream", "none", cg[g].body, 0, cg[g].stale, {})]
    /\ UNCHANGED lockRest

\* hive FetchAllPages worker: FetchPage has returned; mu.Lock()
WorkerLock(g) ==
    /\ provider = "hive"
    /\ cg[g].pc = "ret"
    /\ resMu = 0
    /\ resMu' = g
    /\ cg' = [cg EXCEPT ![g].pc = "reslocked"]
    /\ UNCHANGED <<provider, now, cacheTTL, cache, ccCache, upstream, stored, trackerVars,
                   fetchVars, svcVars, ccMu>>

\* hive FetchAllPages worker: the error or the page is noted; mu.Unlock(); next job
WorkerUnlock(g) ==
    /\ provider = "hive"
    /\ cg[g].pc = "reslocked"
    /\ resMu' = 0
    /\ cg' = [cg EXCEPT ![g] = Idle]
    /\ UNCHANGED <<provider, now, cacheTTL, cache, ccCache, upstream, stored, trackerVars,
                   fetchVars, svcVars, ccMu>>

\* hive GetPage / cubecraft All: the fetch has returned data; the service calls
\* recordChanges / recordStatusChanges with the items
RecordAfterFetch(g) ==
    /\ cg[g].pc = "ret"
    /\ cg[g].err = "none"
    /\ cg[g].body.kind = "data"
    /\ tr[g].pc = "idle"
    /\ Len(updates) < MaxLog
    /\ tr' = [h \in Procs |->
                IF h = g THEN RecordLocals(ItemsOf(cg[g].body), 1) ELSE Interrupted(h)]
    /\ cg' = [cg EXCEPT ![g] = Idle]
    /\ UNCHANGED <<provider, now, prevStatus, updates, mu, cacheTTL, cache, ccCache,
                   upstream, stored, fetchVars, svcVars, lockVars>>

LockTTLs == {0, 2}

InitLocks ==
    /\ provider \in Providers
    /\ now = 0
    /\ InitTrackerVars
    /\ InitCacheVars(LockTTLs, CacheURLs)
    /\ NoFetch
    /\ NoSvc
    /\ NoLocks

\* a goroutine is in one call at a time: it fetches only when it is not recording
NextLocks ==
    \/ \E g \in Procs : tr[g].pc = "idle" /\ FetchRLock(g)
    \/ \E g \in Procs : FetchRUnlock(g)
    \/ \E g \in Procs : \E outcome \in CubeOutcomes : FetchDo(g, outcome)
    \/ \E g \in Procs : FetchLock(g)
    \/ \E g \in Procs : FetchStore(g)
    \/ \E g \in Procs : \E u \in CacheURLs : \E bypass \in BOOLEAN :
          tr[g].pc = "idle" /\ HiveGetLoad(g, u, bypass)
    \/ \E g \in Procs : HiveGetDelete(g)
    \/ \E g \in Procs : \E outcome \in HiveOutcomes : HiveGetResp(g, outcome)
    \/ \E g \in Procs : WorkerLock(g)
    \/ \E g \in Procs : WorkerUnlock(g)
    \/ \E g \in Procs : RecordAfterFetch(g)
    \/ \E g \in Procs : RecordLock(g)
    \/ \E g \in Procs : RecordItem(g)
    \/ \E g \in Procs : RecordReturn(g) /\ tr'[g].pc = "idle"
    \/ UpstreamChange
    \/ Tick

SpecLocks == InitLocks /\ [][NextLocks]_vars

\* the locks goroutine g holds
HeldBy(g) ==
    (IF g \in ccMu.r \/ ccMu.w = g THEN {"Client.mu"} ELSE {})
    \cup (IF mu = g THEN {"service.mu"} ELSE {})
    \cup (IF resMu = g THEN {"FetchAllPages.mu"} ELSE {})

\* C23: no lock is held across network I/O: a goroutine whose upstream request is in
\* flight holds none of the cubecraft client cache lock, the tracker mutex of the
\* service and the result mutex of FetchAllPages.
C23_NoLockAcrossRequest ==
    \A g \in Procs : cg[g].pc = "inflight" => HeldBy(g) = {}

\* C23 witness: with caching on, a cubecraft request is in flight after its read of the
\* cache under the read lock, while another goroutine holds a lock
C23_Witness ==
    \E g, h \in Procs :
        /\ provider = "cubecraft"
        /\ cacheTTL > 0
        /\ cg[g].pc = "inflight"
        /\ cg[g].stale
        /\ HeldBy(h) # {}

RECURSIVE SumTo(_, _)
SumTo(f, n) == IF n = 0 THEN 0 ELSE f[n] + SumTo(f, n - 1)

\* C24: when the first page's response declares a total page count of 1 or less
\* (0 and negative values included), FetchAllPages returns successfully with exactly
\* one page, the first response, and issues no further page request.
C24_SinglePageForSmallTotals ==
    upTotal <= 1 =>
        /\ fp.pc # "panic"
        /\ (FetchDone /\ ret.err = NoErr) =>
              /\ ret.pages = <<buildURL(base).url>>
              /\ SumTo(fh.reqs, MaxPages) <= 1

\* out holds entries of log, in the order of log
InLogOrder(out, log) ==
    \E f \in [1..Len(out) -> 1..Len(log)] :
        /\ \A i \in 1..Len(out) : log[f[i]] = out[i]
        /\ \A i, j \in 1..Len(out) : i < j => f[i] < f[j]

\* C25: while a record call is in its loop, the log changes only by that call
\* appending, at the end, the entry of the item its loop is at, stamped with the call's
\* one detection time; so the entries of one call lie together, in item order, also
\* with other record calls running.  Updates returns retained entries in log order.
C25_EntriesOfACallContiguous ==
    [][\A g \in Procs :
         /\ (tr[g].pc = "rec_loop" /\ updates' # updates) =>
               /\ ItemStep(g)
               /\ Len(updates') = Len(updates) + 1
               /\ SubSeq(updates', 1, Len(updates)) = updates
               /\ updates'[Len(updates')].At = tr[g].at
               /\ updates'[Len(updates')].Item = CurItem(g)
         /\ ReadStep(g) => InLogOrder(tr'[g].out, updates)]_vars

\* C25 witness: a record call has appended one entry for each of its two items, in
\* item order and with its own detection time, while another record call waits
C25_Witness ==
    \E g, h \in Procs :
        /\ tr[g].pc = "rec_loop"
        /\ tr[g].i = 3
        /\ Len(updates) = 2
        /\ \A k \in 1..2 : updates[k].Item = tr[g].items[k] /\ updates[k].At = tr[g].at
        /\ tr[h].pc = "rec_lock"
        /\ tr[h].at # tr[g].at

\* ------------------------------------------------- normalizeSort, alone
\* the request as a caller may write it: in capitals, with white space around it,
\* with white space inside it
Upper(s) == [i \in 1..Len(s) |-> IF s[i] >= 97 /\ s[i] <= 122 THEN s[i] - 32 ELSE s[i]]

Spellings(s) ==
    {s, Upper(s), <<32>> \o s, s \o <<9, 10>>, <<32>> \o Upper(s) \o <<32>>}
    \cup (IF Len(s) > 1 THEN {<<s[1], 32>> \o Tail(s)} ELSE {})

RawSorts == UNION {Spellings(Codes(n)) : n \in SortNames \cup {"", "bogus"}}

RawColumns ==
    UNION {{Codes(c), Upper(Codes(c))} :
             c \in {"in-progress", "coming-next", "released", "bogus", ""}}

InitSort ==
    /\ provider = "cubecraft"
    /\ now = 0
    /\ InitTrackerVars
    /\ InitCacheVars({0}, CacheURLs)
    /\ NoFetch
    /\ NoLocks
    /\ feed = <<>>
    /\ seen = <<>>
    /\ svc \in [pc : {"in"}, in : RawSorts, column : RawColumns]

\* normalizeSort(in, column) is called and returns
NormalizeSort ==
    /\ svc.pc = "in"
    /\ svc' = [pc |-> "out", in |-> svc.in, column |-> svc.column,
               out |-> normalizeSort(svc.in, svc.column)]
    /\ UNCHANGED <<provider, now, trackerVars, cacheVars, fetchVars, feed, seen, lockVars>>

NextSort == NormalizeSort

SpecSort == InitSort /\ [][NextSort]_vars

\* code point x is the letter y of a lower-case literal, in either case
SameLetter(x, y) == x = y \/ (y >= 97 /\ y <= 122 /\ x = y - 32)

\* s is the literal name, in any mix of cases
Spells(s, name) ==
    /\ Len(s) = Len(Codes(name))
    /\ \A i \in 1..Len(s) : SameLetter(s[i], Codes(name)[i])

\* in is the literal name in any mix of cases, with white space before and after it
Requests(in, name) ==
    \E i \in 1..(Len(in) + 1) : \E j \in 0..Len(in) :
        /\ Spells(SubSeq(in, i, j), name)
        /\ \A k \in 1..Len(in) : (k < i \/ k > j) => in[k] \in {9, 10, 13, 32}

\* C26: normalizeSort returns the requested sort, trimmed and lower-cased, when that
\* is one of the eight recognized field:direction values, and otherwise the default of
\* the column: releasedat:desc for released, lastupdated:desc for in-progress and
\* coming-next, title:asc for any other column; it always returns one of the eight.
C26_NormalizeSort ==
    svc.pc = "out" =>
        /\ svc.out \in SortNames
        /\ IF \E n \in SortNames : Requests(svc.in, n)
           THEN Requests(svc.in, svc.out)
           ELSE svc.out =
                  (IF Spells(svc.column, "released") THEN "releasedat:desc"
                   ELSE IF Spells(svc.column, "in-progress")
                           \/ Spells(svc.column, "coming-next")
                        THEN "lastupdated:desc"
                   ELSE "title:asc")

\* C26 witness: a request in capitals with white space around it came back as its
\* literal, although the column's default is another sort
C26_Witness ==
    /\ svc.pc = "out"
    /\ svc.in = <<32>> \o Upper(Codes("title:desc")) \o <<32>>
    /\ svc.out = "title:desc"
    /\ svc.column = Codes("released")

\* the identifiers of a sequence of items, in order
IDsOf(items) == [i \in 1..Len(items) |-> items[i].ID]

\* C27: for a non-empty filtered result All returns pages that partition the sorted
\* items: the pages' items, in page order, are the sorted items; every page but the
\* last has limit items and the last has 1 to limit; page k has Meta.Page = k and all
\* its items have Page = k; a limit of 0 or less counts as 10.
C27_PagesPartitionItems ==
    (SvcAnswered /\ svc.op = "All" /\ Len(svc.items) > 0)
    => LET L == IF svc.limit <= 0 THEN 10 ELSE svc.limit
           n == Len(svc.pages)
       IN  /\ ~svc.panic
           /\ n >= 1
           /\ Flatten([k \in 1..n |-> IDsOf(svc.pages[k].Items)]) = IDsOf(svc.items)
           /\ \A k \in 1..n :
                 /\ Len(svc.pages[k].Items) >= 1
                 /\ Len(svc.pages[k].Items) <= L
                 /\ k < n => Len(svc.pages[k].Items) = L
                 /\ svc.pages[k].Meta.Page = k
                 /\ \A i \in 1..Len(svc.pages[k].Items) : svc.pages[k].Items[i].Page = k

\* ------------------------------------- hive GetPage over several columns
HiveColumns == {"in-progress", "released"}

\* the name of the status the provider files under a column's status id
columnStatusName(column) == IF column = "in-progress" THEN "In Progress" ELSE "Released"

\* Client.buildURL for page 1 of a column: with the page and the other parameters
\* fixed, the column's status id stands for the URL
columnURL(column) == IF column = "in-progress" THEN 1 ELSE 2

HiveURLs == {columnURL(c) : c \in HiveColumns}

\* the body the provider sends for a column: the submissions that have the column's
\* status now, in the order of their identifiers
ColumnBody(column) ==
    LET ids == {id \in DOMAIN feed : feed[id].Status = columnStatusName(column)}
        one(id) == <<[ID |-> id, Status |-> feed[id].Status]>>
    IN  [ver |-> 0, kind |-> "data",
         items |-> (IF "a" \in ids THEN one("a") ELSE <<>>)
                   \o (IF "b" \in ids THEN one("b") ELSE <<>>)]

\* hive service.GetPage(ctx, q), whole: FetchPage -> get (a fresh entry, or the
\* request and the store), the decoding, MapResponse, recordChanges(page.Items)
GetPage(column, bypass, outcome) ==
    /\ provider = "hive"
    /\ LET u == columnURL(column)
           hit == CacheHit(u, bypass)
           fresh == IF outcome = "ok" THEN ColumnBody(column)
                    ELSE [ver |-> 0, kind |-> "garbage", items |-> <<>>]
           body == IF hit THEN cache[u].body ELSE fresh
           failed == ~hit /\ outcome \in {"neterr", "status"}
           st == recordWhole([prevStatus |-> prevStatus, updates |-> updates],
                             body.items, now)
       IN  /\ cache' = IF hit THEN cache
                       ELSE IF ~failed /\ hiveStoresCache(bypass)
                       THEN [cache EXCEPT ![u] = hiveNewEntry(body)]
                       ELSE CacheAfterLookup(u, bypass)
           /\ IF failed \/ hiveDecodeErr(body) # "none"
              THEN UNCHANGED <<prevStatus, updates>>
              ELSE /\ Len(updates) + Len(body.items) <= MaxLog
                   /\ prevStatus' = st.prevStatus
                   /\ updates' = st.updates
    /\ UNCHANGED <<provider, now, mu, tr, cacheTTL, ccCache, upstream, cg, stored,
                   fetchVars, svcVars, lockVars>>

InitHive ==
    /\ provider = "hive"
    /\ now = 0
    /\ InitTrackerVars
    /\ InitCacheVars(LockTTLs, HiveURLs)
    /\ NoFetch
    /\ NoLocks
    /\ feed \in [IDs -> [Status : Statuses]]
    /\ svc = Idle
    /\ seen = <<>>

\* a submission's status changes at most once: from In Progress to Released
NextHive ==
    \/ \E column \in HiveColumns, bypass \in BOOLEAN, outcome \in HiveOutcomes :
          GetPage(column, bypass, outcome)
    \/ \E id \in IDs : feed[id].Status = "In Progress" /\ StatusChange(id, "Released")
    \/ Tick

SpecHive == InitHive /\ [][NextHive]_vars

\* C28: every ChangeEntry reflects a real upstream transition: when an item's upstream
\* status changes once, from In Progress to Released, then whatever columns are
\* fetched, cached or not, the log holds at most one entry for the item and never an
\* entry from Released to In Progress.
C28_OnlyRealTransitions ==
    \A id \in IDs :
        /\ Cardinality({k \in 1..Len(updates) : updates[k].Item.ID = id}) <= 1
        /\ \A k \in 1..Len(updates) :
              updates[k].Item.ID = id
              => ~(updates[k].From = "Released" /\ updates[k].To = "In Progress")

\* C29: in the hive client a body that fails JSON decoding is never stored in the
\* response cache, so no fetch served from the cache fails on decoding.
C29_UndecodableBodyNotCached ==
    provider = "hive" =>
        /\ \A u \in DOMAIN cache : cache[u].ok => hiveDecodeErr(cache[u].body) = "none"
        /\ \A g \in Procs :
              (cg[g].pc = "ret" /\ cg[g].src = "cache") => cg[g].err = "none"

\* goroutine g runs the Delete of hive get in this step
DeleteStep(g) == cg[g].pc = "delete" /\ cg'[g].pc = "inflight"

\* C30: in hive get, under any interleaving of calls for one URL, the eviction of an
\* expired entry never removes an unexpired one: what the Delete removes has expired,
\* so a stored entry stays until its expiry unless a newer store replaces it.
C30_EvictionRemovesOnlyExpired ==
    [][\A g \in Procs :
         DeleteStep(g) =>
            LET e == cache[cg[g].key]
            IN  e.ok => ~(now < e.expiresAt)]_vars

\* --------------------------------------------------------------- C31..C34

\* a cubecraft All / Page call goes through in this step
SvcStep == svc.pc = "idle" /\ svc'.pc = "ret"

\* a hive GetAll call returns in this step
GetAllStep == fp.pc # "done" /\ fp'.pc = "done"

C32_FetchAllPagesTerminates ==
    (fp.pc \in {"call", "first", "dispatch", "wait"} /\ upTotal >= 1)
    ~> (/\ FetchDone
        /\ maxConcurrency >= 1
        /\ Pooled => /\ fp.p = fp.total + 1
                     /\ \A w \in Workers : wk[w].st \in {"exit", "none"})

\* C32 witness: a pooled call for three pages with one worker has returned after two
\* failed fetches, with nothing left to hand out and the worker gone
C32_Witness ==
    /\ Pooled
    /\ fp.total = MaxPages
    /\ maxConcurrency = 1
    /\ fh.nFail >= 2
    /\ fp.p = fp.total + 1
    /\ \A w \in Workers : wk[w].st \in {"exit", "none"}

\* C33: in every reachable state of a service, every entry e of the change log has
\* e.From different from e.To, e.Item.Status = e.To, and e.Item.ID a key of the
\* previous-status index.
C33_EntriesWellFormed ==
    \A k \in 1..Len(updates) :
        /\ updates[k].From # updates[k].To
        /\ updates[k].Item.Status = updates[k].To
        /\ updates[k].Item.ID \in DOMAIN prevStatus

\* C33 witness: the log holds two entries, for one item that went to a status and
\* back, and the index holds a second item
C33_Witness ==
    /\ Len(updates) = 2
    /\ updates[1].Item.ID = updates[2].Item.ID
    /\ updates[1].From = updates[2].To
    /\ Cardinality(DOMAIN prevStatus) = 2

\* goroutine g, inside a hive fetch with the bypass flag, takes a step
BypassStep(g) ==
    /\ provider = "hive"
    /\ cg'[g] # cg[g]
    /\ cg'[g].pc # "idle"
    /\ cg'[g].bypass

\* C34: a hive fetch with the cache-bypass flag always issues an upstream request and
\* leaves the cache as it is: its call goes straight to the request, its answer comes
\* from upstream, and none of its steps stores, refreshes or evicts an entry, so what
\* is cached for the URL is what later fetches without the flag find.
C34_BypassLeavesCache ==
    [][\A g \in Procs :
         BypassStep(g) =>
            /\ cache' = cache
            /\ CanCall(g) => cg'[g].pc = "inflight"
            /\ cg'[g].pc \in {"inflight", "ret"}
            /\ cg'[g].pc = "ret" => cg'[g].src = "upstream"]_vars

\* C34 witness: a fetch with the flag has come back with newer data than the fresh
\* entry the cache holds for its URL, and the entry is still there
C34_Witness ==
    \E g \in Procs : \E u \in DOMAIN cache :
        /\ provider = "hive"
        /\ cg[g].pc = "ret"
        /\ cg[g].bypass
        /\ cg[g].body.kind = "data"
        /\ cache[u].ok
        /\ now < cache[u].expiresAt
        /\ cache[u].body.kind = "data"
        /\ cache[u].body.ver < cg[g].body.ver

====
